---- MODULE Spec2Model ----
(***************************************************************************)
(* Shipment analysis orchestrator (ShipmentAnalyzerService) of wnwd.       *)
(*                                                                         *)
(* analyzeShipments splits the input IDs into chunks, runs one             *)
(* processShipment task per ID of a chunk concurrently, and each resolved  *)
(* shipment runs one processContainer task per container concurrently.     *)
(* Every `await` of the source is a suspension point: the model has one    *)
(* action per continuation (the code that runs when an awaited promise     *)
(* settles, up to the next await).  The four collaborators are interfaces: *)
(* each call settles with any result of its type, or rejects.              *)
(*                                                                         *)
(* Optional values (`x?: T`) are sequences: <<>> is absent, <<v>> present. *)
(* Confidences are in hundredths (0.8 is 80), temperatures and wind speeds *)
(* in tenths.                                                              *)
(***************************************************************************)
EXTENDS Integers, Sequences, FiniteSets, TLC

\* ------------------------------------------------------------------ bounds
\* Runs of the whole orchestrator (Spec): length of the input list, batch
\* size, containers over all shipments the shipment source returns, delay
\* reasons over all trackings the tracking source returns.
MaxIds == 2
MaxBatch == 2
MaxContainers == 2
MaxFanoutReasons == 1
\* Runs of one shipment with one container (SpecContainer): delay reasons of
\* its tracking.
MaxReasons == 3

\* Delay reasons in one run of two shipments (error order).
MaxOrderReasons == 2
\* Runs over a longer input list (SpecBatching): length of the input list.
MaxBatchIds == 3
\* Runs of retryWithBackoff (SpecRetry): largest maxRetries of a policy.
MaxRetries == 6

\* ------------------------------------------------------- program constants
CONFIDENCE_THRESHOLD == 80

\* --------------------------------------------------------------- data sets
None == <<>>
Some(v) == <<v>>

ShipmentIdSet == {"S1", "S2"}
ContainerCatalogue ==
  [S1 |-> <<"A1", "A2", "A3", "A4", "A5">>, S2 |-> <<"B1", "B2", "B3", "B4", "B5">>]
AllReasons == <<"fog", "strike", "customs", "swell", "crane">>
Confidences == {65, 79, 80}

Prefix(s, n) == [k \in 1..n |-> s[k]]

SeqsUpTo(S, n) == UNION {[1..k -> S] : k \in 0..n}

Min(a, b) == IF a < b THEN a ELSE b

Shipment(id, containers) ==
  [shipmentId |-> id,
   customerName |-> <<"customer", id>>,
   shipperName |-> <<"shipper", id>>,
   containers |-> containers]

Tracking(cn, n, port, arrival) ==
  [containerNumber |-> cn,
   scac |-> "MAEU",
   estimatedArrival |-> "2025-07-16T03:00",
   actualArrival |-> IF arrival THEN Some("2025-07-20T14:30") ELSE None,
   delayReasons |-> Prefix(AllReasons, n),
   destinationPort |-> IF port THEN Some("HAMBURG") ELSE None]

\* Settlement of an awaited promise: fulfilled with a value or rejected.
Fulfilled(v) == [status |-> "fulfilled", value |-> v, reason |-> None]
Rejected(r) == [status |-> "rejected", value |-> None, reason |-> Some(r)]

\* Result<T>: success, an optional data property, a message.
ResultData(d, m) == [success |-> TRUE, data |-> Some(d), message |-> m]
ResultNotFound(m) == [success |-> TRUE, data |-> None, message |-> m]
ResultFailure(m) == [success |-> FALSE, data |-> None, message |-> m]

isSuccess(result) == result.success /\ result.data # None
isNotFound(result) == result.success /\ result.data = None
isFailure(result) == ~result.success

\* Which of the three states a returned Result is in.
resultKind(result) ==
  IF ~result.success THEN "failure"
  ELSE IF result.data = None THEN "notfound" ELSE "found"

\* What IShipmentDataAdapter.getShipmentById can settle with; a shipment
\* found holds at most maxContainers containers.
ShipmentSettlements(id, maxContainers) ==
  {Fulfilled(ResultData(Shipment(id, Prefix(ContainerCatalogue[id], n)), "found")) :
      n \in 0..Min(maxContainers, Len(ContainerCatalogue[id]))}
    \cup {Fulfilled(ResultNotFound("not found")),
          Fulfilled(ResultFailure("load failed")),
          Rejected("shipment source threw")}

PortArrival == {<<TRUE, TRUE>>, <<FALSE, TRUE>>, <<TRUE, FALSE>>}

\* What ITrackingDataAdapter.getTrackingByContainer can settle with; a
\* tracking found holds at most maxReasons delay reasons.
TrackingSettlements(cn, maxReasons) ==
  {Fulfilled(ResultData(Tracking(cn, n, pa[1], pa[2]), "found")) :
      n \in 0..Min(maxReasons, Len(AllReasons)), pa \in PortArrival}
    \cup {Fulfilled(ResultNotFound("not found")),
          Fulfilled(ResultFailure("load failed")),
          Rejected("tracking source threw")}

\* What IDelayAnalyzer.analyzeDelay can settle with.
DelaySettlements ==
  {Fulfilled([isWeatherRelated |-> w, confidence |-> c]) :
      w \in BOOLEAN, c \in Confidences}
    \cup {Rejected("classifier threw")}

WeatherData(t, w) == [temperature |-> t, windSpeed |-> w]

WeatherResult(st, d, e) == [status |-> st, data |-> d, error |-> e]

\* What IWeatherProvider.getWeather can settle with.
WeatherSettlements ==
  {Fulfilled(WeatherResult("SUCCESS", Some(WeatherData(Some(215), Some(30))), None)),
   Fulfilled(WeatherResult("SUCCESS", Some(WeatherData(None, None)), None)),
   Fulfilled(WeatherResult("NO_DATA_AVAILABLE", None, Some("no hourly data"))),
   Fulfilled(WeatherResult("RETRY_EXHAUSTED", None, Some("exhausted"))),
   Fulfilled(WeatherResult("FATAL_ERROR", None, Some("HTTP 400"))),
   Rejected("weather source threw")}

isWeatherSuccess(result) == result.status = "SUCCESS"

\* ------------------------------------------------------- record and errors
AnalysisError(key, type, msg) ==
  [containerNumber |-> key, errorType |-> type, message |-> msg]

\* Array.prototype.join("; "): the elements with a separator between them.
RECURSIVE Join(_)
Join(s) ==
  IF Len(s) = 0 THEN <<>>
  ELSE IF Len(s) = 1 THEN <<s[1]>>
  ELSE <<s[1], "; ">> \o Join(Tail(s))

\* new Date().toISOString() while analyzeShipments runs, and what it can be
\* when the records are enriched afterwards: the same millisecond or later.
emissionInstant == "2025-10-01T09:00:00.000Z"

Timestamps == {emissionInstant, "2025-10-01T09:00:00.250Z"}

buildErrorRecord(shipmentId) ==
  [sglShipmentNo |-> shipmentId,
   customerName |-> <<>>,
   shipperName |-> <<>>,
   containerNumber |-> "",
   scac |-> None,
   initialCarrierETA |-> None,
   actualArrivalAt |-> None,
   delayReasons |-> None,
   temperature |-> None,
   windSpeed |-> None,
   weatherFetchStatus |-> None,
   lastUpdated |-> emissionInstant]

\* tracking is an optional Tracking (None when the lookup gave no data).
buildBaseRecord(shipment, containerNumber, tracking) ==
  [sglShipmentNo |-> shipment.shipmentId,
   customerName |-> shipment.customerName,
   shipperName |-> shipment.shipperName,
   containerNumber |-> containerNumber,
   scac |-> IF tracking = None THEN None ELSE Some(tracking[1].scac),
   initialCarrierETA |->
     IF tracking = None THEN None ELSE Some(tracking[1].estimatedArrival),
   actualArrivalAt |->
     IF tracking = None THEN None ELSE tracking[1].actualArrival,
   delayReasons |->
     IF tracking = None THEN None ELSE Some(Join(tracking[1].delayReasons)),
   temperature |-> None,
   windSpeed |-> None,
   weatherFetchStatus |-> None,
   lastUpdated |-> emissionInstant]

\* Mutant: the slice ends one element early.
RECURSIVE chunkFromShortSlice(_, _, _)
chunkFromShortSlice(array, size, i) ==
  IF i > Len(array) THEN <<>>
  ELSE LET j == IF i + size - 2 < Len(array) THEN i + size - 2 ELSE Len(array)
       IN <<SubSeq(array, i, j)>> \o chunkFromShortSlice(array, size, i + size)

\* chunkArray's loop from (1-based) index i: array.slice(i, i + size).
RECURSIVE chunkFrom(_, _, _)
chunkFrom(array, size, i) ==
  IF i > Len(array) THEN <<>>
  ELSE LET j == IF i + size - 1 < Len(array) THEN i + size - 1 ELSE Len(array)
       IN <<SubSeq(array, i, j)>> \o chunkFrom(array, size, i + size)

chunkArray(array, size) == chunkFrom(array, size, 1)


\* ---------------------------------------------------------- container task
\* State of one processContainer invocation.  pc is the promise it awaits;
\* lookup keeps how its getTrackingByContainer call settled, weather how its
\* getWeather call did ("none" while not called); classifierCalls
\* (reason indexes, in call order), weatherCalls, first (the first verdict,
\* while the retry is awaited) and gate (what analyzeDelayWithConfidenceCheck
\* returned for each reason, after how many calls, and what the first verdict
\* said) record the calls.
ContainerTask(cn) ==
  [containerNumber |-> cn,
   pc |-> "awaitTracking",
   lookup |-> "pending",
   tracking |-> None,
   reasonIdx |-> 0,
   attempt |-> 0,
   first |-> None,
   errors |-> <<>>,
   record |-> None,
   hasWeatherDelay |-> FALSE,
   classifierCalls |-> <<>>,
   weatherCalls |-> 0,
   weather |-> "none",
   gate |-> <<>>,
   reason |-> None]

containerRejects(ct, why) == [ct EXCEPT !.pc = "rejected", !.reason = why]

\* processContainer lines 232-240: copy the weather outcome, return.
applyWeather(ct, weatherResult) ==
  LET r0 == ct.record[1]
      r1 == IF isWeatherSuccess(weatherResult)
            THEN [r0 EXCEPT !.temperature = weatherResult.data[1].temperature,
                            !.windSpeed = weatherResult.data[1].windSpeed]
            ELSE r0
      r2 == [r1 EXCEPT !.weatherFetchStatus = Some(weatherResult.status)]
  IN [ct EXCEPT !.record = Some(r2), !.pc = "fulfilled"]

\* Mutant: one of the two is enough to go on.
hasPortOrArrival(tracking) ==
  tracking.destinationPort # None \/ tracking.actualArrival # None

\* line 166, negated: both destinationPort and actualArrival are there.
hasPortAndArrival(tracking) ==
  tracking.destinationPort # None /\ tracking.actualArrival # None

\* fetchWeatherSafely up to its await: the precondition check, else the call.
fetchWeatherSafely(ct) ==
  IF ~hasPortAndArrival(ct.tracking[1])
  THEN applyWeather(ct, WeatherResult("NO_DATA_AVAILABLE", None,
                                      Some("Missing port location or arrival date")))
  ELSE [ct EXCEPT !.pc = "awaitWeather", !.weatherCalls = @ + 1,
                  !.weather = "pending"]

\* Mutant: no try/catch around getWeather, the rejection escapes.
afterWeatherUncaught(ct, settlement) ==
  IF settlement.status = "fulfilled"
  THEN applyWeather([ct EXCEPT !.weather = "returned"], settlement.value)
  ELSE containerRejects([ct EXCEPT !.weather = "threw"], settlement.reason)

\* fetchWeatherSafely after getWeather settled, then processContainer's tail.
afterWeather(ct, settlement) ==
  IF settlement.status = "fulfilled"
  THEN applyWeather([ct EXCEPT !.weather = "returned"], settlement.value)
  ELSE applyWeather(
         [ct EXCEPT !.errors = Append(@, AnalysisError(ct.containerNumber,
                                   "WEATHER_FETCH_ERROR", settlement.reason[1])),
                    !.weather = "threw"],
         WeatherResult("FATAL_ERROR", None, settlement.reason))

\* Mutant: the loop falls through to `return true`.
hasWeatherRelatedDelayDefaultTrue(ct, idx) ==
  IF idx > Len(ct.tracking[1].delayReasons)
  THEN fetchWeatherSafely([ct EXCEPT !.hasWeatherDelay = TRUE])
  ELSE [ct EXCEPT !.pc = "awaitClassifier",
                  !.reasonIdx = idx,
                  !.attempt = 1,
                  !.first = None,
                  !.classifierCalls = Append(@, idx)]

\* hasWeatherRelatedDelay at the head of its loop, about to take reason idx.
hasWeatherRelatedDelay(ct, idx) ==
  IF idx > Len(ct.tracking[1].delayReasons)
  THEN [ct EXCEPT !.pc = "fulfilled"]
  ELSE [ct EXCEPT !.pc = "awaitClassifier",
                  !.reasonIdx = idx,
                  !.attempt = 1,
                  !.first = None,
                  !.classifierCalls = Append(@, idx)]

\* Mutant: the threshold itself is not accepted.
exceedsThreshold(confidence) == confidence > CONFIDENCE_THRESHOLD

\* lines 128 and 139: analysis.confidence >= CONFIDENCE_THRESHOLD
meetsThreshold(confidence) == confidence >= CONFIDENCE_THRESHOLD

GateEntry(ct, outcome, analysis) ==
  [reason |-> ct.reasonIdx, calls |-> ct.attempt, outcome |-> outcome,
   firstMet |-> LET f == IF ct.attempt = 2 THEN ct.first ELSE analysis
                IN f # None /\ f[1].confidence >= CONFIDENCE_THRESHOLD,
   firstWeather |-> LET f == IF ct.attempt = 2 THEN ct.first ELSE analysis
                    IN f # None /\ f[1].isWeatherRelated,
   analysis |-> analysis]

\* Mutant: a weather-related verdict is noted but the loop goes on to the
\* remaining reasons before returning true.
afterAnalysisNoShortCircuit(ct, analysis) ==
  LET noted == IF analysis # None /\ analysis[1].isWeatherRelated
               THEN [ct EXCEPT !.hasWeatherDelay = TRUE] ELSE ct
  IN IF ct.reasonIdx < Len(ct.tracking[1].delayReasons)
     THEN hasWeatherRelatedDelay(noted, ct.reasonIdx + 1)
     ELSE IF noted.hasWeatherDelay THEN fetchWeatherSafely(noted)
     ELSE [noted EXCEPT !.pc = "fulfilled"]

\* hasWeatherRelatedDelay lines 108-116: what the loop does with the value
\* analyzeDelayWithConfidenceCheck returned (None is null).
afterAnalysis(ct, analysis) ==
  IF analysis = None THEN hasWeatherRelatedDelay(ct, ct.reasonIdx + 1)
  ELSE IF analysis[1].isWeatherRelated
  THEN fetchWeatherSafely([ct EXCEPT !.hasWeatherDelay = TRUE])
  ELSE hasWeatherRelatedDelay(ct, ct.reasonIdx + 1)

\* Mutant: the message carries the confidence of the first attempt.
lowConfidenceErrorOfFirst(ct, analysis) ==
  AnalysisError(ct.containerNumber, "DELAY_ANALYSIS_LOW_CONFIDENCE",
                <<"confidence too low", ct.first[1].confidence,
                  ct.tracking[1].delayReasons[ct.reasonIdx]>>)

\* lines 147-156: the error pushed when the retry is still below threshold.
lowConfidenceError(ct, analysis) ==
  AnalysisError(ct.containerNumber, "DELAY_ANALYSIS_LOW_CONFIDENCE",
                <<"confidence too low", analysis.confidence,
                  ct.tracking[1].delayReasons[ct.reasonIdx]>>)

\* analyzeDelayWithConfidenceCheck after an analyzeDelay call settled.
analyzeDelayWithConfidenceCheck(ct, settlement) ==
  IF settlement.status = "rejected"
  THEN containerRejects(
         [ct EXCEPT !.gate = Append(@, GateEntry(ct, "threw", None)),
                    !.first = None],
         settlement.reason)
  ELSE LET analysis == settlement.value IN
    IF meetsThreshold(analysis.confidence)
    THEN afterAnalysis(
           [ct EXCEPT !.gate = Append(@, GateEntry(ct, "accepted",
                                                   Some(analysis))),
                      !.first = None],
           Some(analysis))
    ELSE IF ct.attempt = 1
    THEN [ct EXCEPT !.attempt = 2,
                    !.first = Some(analysis),
                    !.classifierCalls = Append(@, ct.reasonIdx)]
    ELSE afterAnalysis(
           [ct EXCEPT !.errors = Append(@, lowConfidenceError(ct, analysis)),
                      !.gate = Append(@, GateEntry(ct, "discarded",
                                                   Some(analysis))),
                      !.first = None],
           None)

\* Mutant: every lookup without data is taken for a failure.
trackingErrorUnlessData(cn, result) ==
  IF ~isSuccess(result)
  THEN <<AnalysisError(cn, "TRACKING_FETCH_ERROR", result.message)>>
  ELSE <<>>

\* processContainer lines 209-214.
trackingError(cn, result) ==
  IF isFailure(result)
  THEN <<AnalysisError(cn, "TRACKING_FETCH_ERROR", result.message)>>
  ELSE <<>>

trackingOf(result) ==
  IF ~isFailure(result) /\ isSuccess(result) THEN result.data ELSE None

\* processContainer after getTrackingByContainer settled (lines 208-225).
processContainer(shipment, ct, settlement) ==
  IF settlement.status = "rejected"
  THEN containerRejects([ct EXCEPT !.lookup = "threw"], settlement.reason)
  ELSE LET trackingResult == settlement.value
           tracking == trackingOf(trackingResult)
           ct1 == [ct EXCEPT
                     !.lookup = resultKind(trackingResult),
                     !.errors = trackingError(ct.containerNumber, trackingResult),
                     !.tracking = tracking,
                     !.record = Some(buildBaseRecord(shipment, ct.containerNumber,
                                                     tracking))]
       IN IF tracking # None
          THEN hasWeatherRelatedDelay(ct1, 1)
          ELSE [ct1 EXCEPT !.pc = "fulfilled"]

containerSettled(ct) == ct.pc \in {"fulfilled", "rejected"}


\* ----------------------------------------------------------- shipment task
\* State of one processShipment invocation.  lookup keeps the settlement of
\* its getShipmentById call.
ShipmentTask(id) ==
  [shipmentId |-> id,
   pc |-> "awaitShipment",
   lookup |-> None,
   containers |-> <<>>,
   records |-> <<>>,
   errors |-> <<>>,
   reason |-> None]

\* Mutant: the two error types swapped.
shipmentErrorTypeSwapped(shipmentResult) ==
  IF isFailure(shipmentResult) THEN "SHIPMENT_NOT_FOUND" ELSE "SHIPMENT_FETCH_ERROR"

\* processShipment lines 254-256.
shipmentErrorType(shipmentResult) ==
  IF isFailure(shipmentResult) THEN "SHIPMENT_FETCH_ERROR" ELSE "SHIPMENT_NOT_FOUND"

\* processShipment lines 253-264: the shipment was not resolved.
unresolvedShipment(st, shipmentResult) ==
  [st EXCEPT !.errors = Append(@, AnalysisError(st.shipmentId,
                                   shipmentErrorType(shipmentResult),
                                   shipmentResult.message)),
             !.records = Append(@, buildErrorRecord(st.shipmentId)),
             !.pc = "fulfilled"]

\* Mutant: the results are walked from the last task to the first.
RECURSIVE containerRecordsReversed(_)
containerRecordsReversed(cts) ==
  IF cts = <<>> THEN <<>>
  ELSE containerRecordsReversed(Tail(cts))
         \o (IF Head(cts).pc = "fulfilled" THEN Head(cts).record ELSE <<>>)

\* processShipment lines 275-277: the records of the fulfilled container
\* tasks, in the order of containerResults.
RECURSIVE containerRecords(_)
containerRecords(cts) ==
  IF cts = <<>> THEN <<>>
  ELSE (IF Head(cts).pc = "fulfilled" THEN Head(cts).record ELSE <<>>)
         \o containerRecords(Tail(cts))

\* Mutant: the synthetic error names the container of the rejected task.
rejectedContainerErrorKeyed(ct) ==
  AnalysisError(ct.containerNumber, "TRACKING_FETCH_ERROR",
                <<"Container processing failed", ct.reason[1]>>)

\* processShipment lines 279-285: the error for a rejected container task.
rejectedContainerError(ct) ==
  AnalysisError("unknown", "TRACKING_FETCH_ERROR",
                <<"Container processing failed", ct.reason[1]>>)

\* Mutant: one rejected container task replaces the errors of all of them.
RECURSIVE containerErrorsAbortOnReject(_)
containerErrorsAbortOnReject(cts) ==
  IF cts = <<>> THEN <<>>
  ELSE IF Head(cts).pc = "fulfilled"
  THEN LET rest == containerErrorsAbortOnReject(Tail(cts))
       IN IF \E j \in 1..Len(Tail(cts)) : Tail(cts)[j].pc = "rejected"
          THEN rest ELSE Head(cts).errors \o rest
  ELSE <<rejectedContainerError(Head(cts))>>

\* processShipment lines 275-286: the errors of the fulfilled container tasks
\* and one synthetic error per rejected one, in the order of containerResults.
RECURSIVE containerErrors(_)
containerErrors(cts) ==
  IF cts = <<>> THEN <<>>
  ELSE (IF Head(cts).pc = "fulfilled" THEN Head(cts).errors
        ELSE <<rejectedContainerError(Head(cts))>>)
         \o containerErrors(Tail(cts))

\* processShipment lines 275-288: collect the settled container tasks.
collectContainers(st) ==
  [st EXCEPT !.records = @ \o containerRecords(st.containers),
             !.errors = @ \o containerErrors(st.containers),
             !.pc = "fulfilled"]

\* Mutant: the container tasks are started from the last container to the
\* first.
processShipmentReversed(st, settlement) ==
  LET st1 == [st EXCEPT !.lookup = Some(settlement)] IN
  IF settlement.status = "rejected"
  THEN [st1 EXCEPT !.pc = "rejected", !.reason = settlement.reason]
  ELSE IF ~isSuccess(settlement.value)
  THEN unresolvedShipment(st1, settlement.value)
  ELSE LET shipment == settlement.value.data[1]
           n == Len(shipment.containers) IN
    [st1 EXCEPT !.pc = "awaitContainers",
                !.containers = [j \in 1..n |->
                                  ContainerTask(shipment.containers[n + 1 - j])]]

\* processShipment after getShipmentById settled (lines 253-273).
processShipment(st, settlement) ==
  LET st1 == [st EXCEPT !.lookup = Some(settlement)] IN
  IF settlement.status = "rejected"
  THEN [st1 EXCEPT !.pc = "rejected", !.reason = settlement.reason]
  ELSE IF ~isSuccess(settlement.value)
  THEN unresolvedShipment(st1, settlement.value)
  ELSE LET shipment == settlement.value.data[1] IN
    [st1 EXCEPT !.pc = "awaitContainers",
                !.containers = [j \in 1..Len(shipment.containers) |->
                                  ContainerTask(shipment.containers[j])]]

shipmentOf(st) == st.lookup[1].value.data[1]

shipmentSettled(st) == st.pc \in {"fulfilled", "rejected"}

RECURSIVE chunkRecords(_)
chunkRecords(sts) ==
  IF sts = <<>> THEN <<>>
  ELSE (IF Head(sts).pc = "fulfilled" THEN Head(sts).records ELSE <<>>)
         \o chunkRecords(Tail(sts))

rejectedShipmentError(st) ==
  AnalysisError("unknown", "SHIPMENT_FETCH_ERROR",
                <<"Shipment processing failed", st.reason[1]>>)

\* Mutant: the errors of a task that settled later are put first.
RECURSIVE chunkErrorsReversed(_)
chunkErrorsReversed(sts) ==
  IF sts = <<>> THEN <<>>
  ELSE chunkErrorsReversed(Tail(sts))
         \o (IF Head(sts).pc = "fulfilled" THEN Head(sts).errors
             ELSE <<rejectedShipmentError(Head(sts))>>)

\* analyzeShipments lines 51-62: the errors of the fulfilled tasks and one
\* synthetic error per rejected one, in the order of chunkResults.
RECURSIVE chunkErrors(_)
chunkErrors(sts) ==
  IF sts = <<>> THEN <<>>
  ELSE (IF Head(sts).pc = "fulfilled" THEN Head(sts).errors
        ELSE <<rejectedShipmentError(Head(sts))>>)
         \o chunkErrors(Tail(sts))

\* Mutant: Promise.all, which rejects when a task rejects.
promiseAllOutcome(sts) ==
  IF \E i \in 1..Len(sts) : sts[i].pc = "rejected" THEN "rejected" ELSE "fulfilled"

\* Promise.allSettled never rejects, whatever its tasks did.
allSettledOutcome(sts) == "fulfilled"

reasonsOf(ct) == IF ct.tracking = None THEN 0 ELSE Len(ct.tracking[1].delayReasons)

RECURSIVE reasonsIn(_)
reasonsIn(cts) ==
  IF cts = <<>> THEN 0 ELSE reasonsOf(Head(cts)) + reasonsIn(Tail(cts))

RECURSIVE containersIn(_)
containersIn(sts) ==
  IF sts = <<>> THEN 0 ELSE Len(Head(sts).containers) + containersIn(Tail(sts))

RECURSIVE reasonsInAll(_)
reasonsInAll(sts) ==
  IF sts = <<>> THEN 0 ELSE reasonsIn(Head(sts).containers) + reasonsInAll(Tail(sts))

\* Mutant: an ID that is in the chunk twice is looked up once.
launchChunkDistinct(chunk) ==
  LET first == {i \in 1..Len(chunk) : \A k \in 1..(i - 1) : chunk[k] # chunk[i]}
      nth(n) == CHOOSE i \in first : Cardinality({k \in first : k < i}) = n - 1
  IN [n \in 1..Cardinality(first) |-> ShipmentTask(chunk[nth(n)])]

\* analyzeShipments line 47: chunk.map(processShipment); every task runs up
\* to its getShipmentById call (line 251).
launchChunk(chunk) == [i \in 1..Len(chunk) |-> ShipmentTask(chunk[i])]

\* ------------------------------------------------------- retryWithBackoff
\* jitterFactor is in hundredths, Math.random() in hundredths (0..99), so a
\* delay in milliseconds is held multiplied by JitterScale * RandomScale.
JitterScale == 100
RandomScale == 100

DelayScale == JitterScale * RandomScale

Randoms == {0, 25, 50, 99}

RetryOptions(maxRetries, baseDelay, maxDelay, jitterFactor) ==
  [maxRetries |-> maxRetries, baseDelay |-> baseDelay, maxDelay |-> maxDelay,
   jitterFactor |-> jitterFactor]

\* The policies: part_006 parses the four fields from the environment and
\* checks none of them, so maxRetries may be negative.
Policies ==
  {RetryOptions(m, b, x, j) :
     m \in (-1)..MaxRetries, b \in {0, 1000}, x \in {3000, 10000}, j \in {0, 10, 100}}

\* Values an invocation of the operation can reject with: Error objects, and
\* a value that is not an Error.
ErrorObject(message, origin) ==
  [isError |-> TRUE, name |-> "Error", message |-> message, origin |-> origin]

ThrownValues ==
  {ErrorObject("network timeout", "operation"),
   ErrorObject("HTTP 500", "operation"),
   ErrorObject("HTTP 400", "operation"),
   [isError |-> FALSE, name |-> "string", message |-> "boom", origin |-> "operation"]}

\* The isRetryable argument, as the set of messages it answers true for.
RetryablePredicates ==
  {{"network timeout", "HTTP 500"},
   {"network timeout", "HTTP 500", "HTTP 400", "boom"}}

RetryExhaustedError(attempts, lastError) ==
  [isError |-> TRUE, name |-> "RetryExhaustedError", attempts |-> attempts,
   lastError |-> lastError]

\* What the n-th invocation of the operation can settle with.
OperationSettlements(n) ==
  {Fulfilled(<<"response", n>>)} \cup {Rejected(v) : v \in ThrownValues}

\* State of one retryWithBackoff call: pc is "idle", "awaitOperation",
\* "awaitSleep", "returned" or "threw"; lastError is the local of line 41
\* (None while undefined); thrown is what the last invocation rejected with;
\* events lists the invocations ("call") and the delays started ("sleep") and
\* completed ("wake"); delay is the delay being slept; outcome is the value
\* returned or the error raised.
RetryCall(options, retryable) ==
  [options |-> options, retryable |-> retryable, pc |-> "idle", attempt |-> 0,
   lastError |-> None, thrown |-> None, events |-> <<>>, delay |-> None,
   outcome |-> None]

\* No retryWithBackoff call (runs of the orchestrator alone).
NoRetry == [pc |-> "none"]

RECURSIVE Pow2(_)
Pow2(n) == IF n <= 0 THEN 1 ELSE 2 * Pow2(n - 1)

Max(a, b) == IF a > b THEN a ELSE b

\* Mutant: the exponential delay is used without the cap.
calculateDelayUncapped(attempt, options, random) ==
  LET exponentialDelay == options.baseDelay * Pow2(attempt)
      jitterRange == exponentialDelay * options.jitterFactor
      jitter == (2 * random - RandomScale) * jitterRange
  IN Max(0, exponentialDelay * DelayScale + jitter)

\* calculateDelay; random is the value Math.random() gave.  The result is the
\* delay multiplied by DelayScale.
calculateDelay(attempt, options, random) ==
  LET exponentialDelay == options.baseDelay * Pow2(attempt)
      cappedDelay == Min(exponentialDelay, options.maxDelay)
      jitterRange == cappedDelay * options.jitterFactor
      jitter == (2 * random - RandomScale) * jitterRange
  IN Max(0, cappedDelay * DelayScale + jitter)

\* line 47: error instanceof Error ? error : new Error(String(error))
asError(v) == IF v.isError THEN v ELSE ErrorObject(v.message, "retryWithBackoff")

isRetryable(r, error) == error.message \in r.retryable

\* Mutant: the loop runs while attempt < maxRetries.
withinAttemptsStrict(attempt, options) == attempt < options.maxRetries

\* line 43: the loop condition.
withinAttempts(attempt, options) == attempt <= options.maxRetries

\* lines 62-66.
raiseExhausted(r) ==
  [r EXCEPT !.pc = "threw",
            !.outcome = Some(RetryExhaustedError(r.options.maxRetries + 1,
                                                 r.lastError))]

\* The head of the loop: invoke the operation, or leave the loop and raise.
retryLoop(r) ==
  IF withinAttempts(r.attempt, r.options)
  THEN [r EXCEPT !.pc = "awaitOperation", !.events = Append(@, "call")]
  ELSE raiseExhausted(r)

\* Mutant: the error is reported as an exhausted retry.
rethrowAsExhausted(r) == raiseExhausted(r)

\* line 51: throw lastError.
rethrow(r) == [r EXCEPT !.pc = "threw", !.outcome = r.lastError]

\* Mutant: a delay follows every failed attempt.
delaysAfterEveryAttempt(attempt, options) == TRUE

\* line 55: no delay after the last attempt.
delaysBeforeRetry(attempt, options) == attempt < options.maxRetries

\* retryWithBackoff after the invocation settled (lines 45-58).
afterOperation(r, settlement, random) ==
  IF settlement.status = "fulfilled"
  THEN [r EXCEPT !.pc = "returned", !.outcome = Some(settlement.value)]
  ELSE LET lastError == asError(settlement.reason[1])
           r1 == [r EXCEPT !.lastError = Some(lastError),
                           !.thrown = settlement.reason]
       IN IF ~isRetryable(r1, lastError) THEN rethrow(r1)
          ELSE IF delaysBeforeRetry(r.attempt, r.options)
          THEN [r1 EXCEPT !.pc = "awaitSleep",
                          !.delay = Some(calculateDelay(r.attempt, r.options, random)),
                          !.events = Append(@, "sleep")]
          ELSE retryLoop([r1 EXCEPT !.attempt = @ + 1])

\* Mutant: the loop does not go on after the delay.
afterSleepStalls(r) == r

\* retryWithBackoff after sleep resolved (line 57, then the loop's attempt++).
afterSleep(r) ==
  retryLoop([r EXCEPT !.attempt = @ + 1, !.delay = None,
                      !.events = Append(@, "wake")])

\* ------------------------------------------------ OpenMeteoWeatherProvider
\* An instant (a Date) is a number of whole hours since 2025-01-01T00:00Z; the
\* time zone of the process is an offset from UTC in hours.  The source gives
\* temperatures in hundredths of a degree and wind speeds in tenths of km/h;
\* the provider returns both in tenths (of a degree, of m/s).

\* Largest maxRetries of the provider's retry policy (SpecWeather).
MaxWeatherRetries == 2

\* new Date(s) of the timestamp a Tracking holds: 2025-07-20 is day 200.
parseDate(s) == CASE s = "2025-07-20T14:30" -> 200 * 24 + 14

\* What new Date() and the process's time zone can be when getWeather runs.
Clocks ==
  {[now |-> n, tz |-> z] : n \in {4790, 4795, 4810, 4840}, z \in {-8, 0, 9}}

\* Date.prototype.setHours(0, 0, 0, 0): midnight, local time, of the day.
setHoursZero(instant, tz) == ((instant + tz) \div 24) * 24 - tz

getUTCHours(instant) == instant % 24

\* Mutant: the instants are compared, not their dates.
isFutureInstant(date, clock) == date > clock.now

\* part_009 lines 43-48: targetDate > today.
isFutureDate(date, clock) ==
  setHoursZero(date, clock.tz) > setHoursZero(clock.now, clock.tz)

\* The retry policies of the provider's configuration.
WeatherPolicies ==
  {RetryOptions(m, 1000, 3000, 10) : m \in (-1)..MaxWeatherRetries}

\* An Error raised during fetchWeatherData; statusCode is the property line
\* 98 adds (None when the error has none).
FetchError(name, message, statusCode) ==
  [isError |-> TRUE, name |-> name, message |-> message, origin |-> "fetch",
   statusCode |-> statusCode]

\* The responses of the model: status and statusText.
HttpResponse(status, statusText) ==
  [ok |-> status \in 200..299, status |-> status, statusText |-> statusText]

HttpResponses ==
  {HttpResponse(200, "OK"), HttpResponse(400, "Bad Request"),
   HttpResponse(408, "Request Timeout"), HttpResponse(429, "Too Many Requests"),
   HttpResponse(500, "Internal Server Error")}

\* line 97: `HTTP ${response.status}: ${response.statusText}`
httpMessage(response) ==
  CASE response.status = 400 -> "HTTP 400: Bad Request"
    [] response.status = 408 -> "HTTP 408: Request Timeout"
    [] response.status = 429 -> "HTTP 429: Too Many Requests"
    [] response.status = 500 -> "HTTP 500: Internal Server Error"

\* lines 96-100: the error thrown for a response that is not ok.
httpError(response) ==
  FetchError("Error", httpMessage(response), Some(response.status))

\* What fetch() can reject with: the TypeError of the runtime, and an error
\* that names a time-out.
FetchRejections ==
  {FetchError("TypeError", "fetch failed", None),
   FetchError("Error", "Network timeout", None)}

\* What the promise of fetch() can settle with.
FetchSettlements ==
  {Fulfilled(r) : r \in HttpResponses} \cup {Rejected(e) : e \in FetchRejections}

\* An OpenMeteoResponse: error is the `error` property, hourly the `hourly`
\* property (None when absent) with the hours of its time array and the two
\* series (None for a series that is absent, None for a null entry).
OpenMeteoResponse(error, hourly) == [error |-> error, hourly |-> hourly]

Hourly(time, temperature, wind) ==
  [time |-> time, temperature_2m |-> temperature, wind_speed_10m |-> wind]

OpenMeteoResponses ==
  {OpenMeteoResponse(TRUE, None),
   OpenMeteoResponse(FALSE, None),
   OpenMeteoResponse(FALSE, Some(Hourly(<<>>, Some(<<>>), Some(<<>>)))),
   OpenMeteoResponse(FALSE, Some(Hourly(<<13, 15>>, Some(<<Some(2460), Some(2500)>>),
                                        Some(<<Some(108), Some(115)>>)))),
   OpenMeteoResponse(FALSE, Some(Hourly(<<14, 15>>, Some(<<Some(2460), Some(2500)>>),
                                        Some(<<Some(108), Some(115)>>)))),
   OpenMeteoResponse(FALSE, Some(Hourly(<<13, 14>>, Some(<<Some(2500), Some(-1234)>>),
                                        Some(<<Some(115), Some(144)>>)))),
   OpenMeteoResponse(FALSE, Some(Hourly(<<14>>, Some(<<Some(2896)>>),
                                        Some(<<Some(120)>>)))),
   OpenMeteoResponse(FALSE, Some(Hourly(<<14>>, Some(<<None>>), Some(<<Some(108)>>)))),
   OpenMeteoResponse(FALSE, Some(Hourly(<<14>>, Some(<<Some(2460)>>), Some(<<None>>)))),
   OpenMeteoResponse(FALSE, Some(Hourly(<<14>>, None, Some(<<Some(108)>>))))}

\* What the promise of response.json() can settle with.
JsonSettlements ==
  {Fulfilled(d) : d \in OpenMeteoResponses}
    \cup {Rejected(FetchError("SyntaxError", "Unexpected token < in JSON", None))}

\* line 106: the error thrown for a body with error === true.
apiError == FetchError("Error", "Open-Meteo API error: Unknown error", None)

\* Every error fetchWeatherData can raise.
FetchErrors ==
  FetchRejections
    \cup {httpError(r) : r \in {x \in HttpResponses : ~x.ok}}
    \cup {apiError, FetchError("SyntaxError", "Unexpected token < in JSON", None)}

\* message.toLowerCase().includes(word), for the messages of the model.
lowerCaseIncludes(message, word) ==
  <<message, word>> \in
    {<<"Network timeout", "network">>, <<"Network timeout", "timeout">>,
     <<"HTTP 408: Request Timeout", "timeout">>}

\* part_004 lines 70-78.
isNetworkError(error) ==
  \E word \in {"timeout", "econnrefused", "enotfound", "network"} :
    lowerCaseIncludes(error.message, word)

\* part_009 lines 166-185.
isRetryableError(error) ==
  \/ isNetworkError(error)
  \/ /\ error.statusCode # None
     /\ \/ error.statusCode[1] = 429
        \/ error.statusCode[1] >= 500 /\ error.statusCode[1] < 600

\* The predicate handed to retryWithBackoff (line 59), as the set of
\* messages it answers true for.
weatherRetryable ==
  {e.message : e \in {x \in FetchErrors : isRetryableError(x)}}

\* Math.round(celsius * 10) / 10, from hundredths to tenths.
roundTemperature(hundredths) == (hundredths + 5) \div 10

\* Mutant: the wind speed is passed on in km/h.
windSpeedUnconverted(tenthsKmh) == tenthsKmh

\* lines 154 and 160: Math.round(kmh / 3.6 * 10) / 10, from tenths of km/h to
\* tenths of m/s.
windSpeedMs(tenthsKmh) == (20 * tenthsKmh + 36) \div 72

\* findIndex(t => t.includes(`T${hour}:`)): first index of the hour, 0 if none.
findIndex(time, hour) ==
  IF \E k \in 1..Len(time) : time[k] = hour
  THEN CHOOSE k \in 1..Len(time) :
         time[k] = hour /\ \A l \in 1..(k - 1) : time[l] # hour
  ELSE 0

\* parseWeatherResponse (lines 112-164): the WeatherResult it returns, or the
\* TypeError of reading an index of a series that is absent.
parseWeatherResponse(response, targetDate) ==
  IF response.hourly = None \/ Len(response.hourly[1].time) = 0
  THEN Fulfilled(WeatherResult("NO_DATA_AVAILABLE", None,
                               Some("No hourly data returned from API")))
  ELSE LET hourlyData == response.hourly[1]
           index == findIndex(hourlyData.time, getUTCHours(targetDate))
       IN IF index = 0
          THEN Fulfilled(WeatherResult("NO_DATA_AVAILABLE", None,
                                       Some("No data found for hour")))
          ELSE IF hourlyData.temperature_2m = None \/ hourlyData.wind_speed_10m = None
          THEN Rejected(FetchError("TypeError", "Cannot read properties of undefined",
                                   None))
          ELSE IF hourlyData.temperature_2m[1][index] = None
          THEN Fulfilled(WeatherResult("NO_DATA_AVAILABLE", None,
                                       Some("Temperature data is null")))
          ELSE IF hourlyData.wind_speed_10m[1][index] = None
          THEN Fulfilled(WeatherResult("NO_DATA_AVAILABLE", None,
                                       Some("Wind speed data is null")))
          ELSE Fulfilled(WeatherResult("SUCCESS",
                 Some(WeatherData(
                        Some(roundTemperature(hourlyData.temperature_2m[1][index][1])),
                        Some(windSpeedMs(hourlyData.wind_speed_10m[1][index][1])))),
                 None))

\* getWeather after retryWithBackoff settled (lines 62-75): how getWeather
\* settles.  Reading lastError.message of a RetryExhaustedError that holds no
\* error raises inside the catch block.
afterRetry(r, date) ==
  IF r.pc = "returned"
  THEN LET parsed == parseWeatherResponse(r.outcome[1], date) IN
         IF parsed.status = "fulfilled" THEN parsed
         ELSE Fulfilled(WeatherResult("FATAL_ERROR", None,
                                      Some(parsed.reason[1].message)))
  ELSE LET error == r.outcome[1] IN
    IF error.name = "RetryExhaustedError"
    THEN IF error.lastError = None
         THEN Rejected("Cannot read properties of undefined (reading 'message')")
         ELSE Fulfilled(WeatherResult("RETRY_EXHAUSTED", None,
                Some(<<"Failed to fetch weather data after", error.attempts,
                       error.lastError[1].message>>)))
    ELSE Fulfilled(WeatherResult("FATAL_ERROR", None, Some(error.message)))

\* fetchWeatherData after fetch() settled (lines 93-100): the rejection of the
\* operation, or None when it goes on to response.json().
afterFetch(settlement) ==
  IF settlement.status = "rejected" THEN Some(settlement)
  ELSE IF ~settlement.value.ok THEN Some(Rejected(httpError(settlement.value)))
  ELSE None

\* fetchWeatherData after response.json() settled (lines 102-109).
afterJson(settlement) ==
  IF settlement.status = "rejected" THEN settlement
  ELSE IF settlement.value.error THEN Rejected(apiError)
  ELSE settlement

\* The provider as constructed with a configuration; pc is "idle",
\* "awaitRetry", "returned" or "threw"; date and clock are the argument and
\* the clock reading of the call; op is the promise fetchWeatherData awaits
\* ("fetch" or "json"); outcome is how getWeather settled.
WeatherProvider(options) ==
  [config |-> options, pc |-> "idle", date |-> None, clock |-> None,
   op |-> "fetch", outcome |-> None]

\* ---------------------------------------------- delay analyzers (classifiers)
\* Largest maxRetries of the classifier's retry policy (SpecClassifier).
MaxClassifierRetries == 2

DelayAnalysisResult(isWeatherRelated, reasoning, confidence) ==
  [isWeatherRelated |-> isWeatherRelated, reasoning |-> reasoning,
   confidence |-> confidence]

\* KeywordDelayAnalyzerService.weatherKeywords, in order.
weatherKeywords ==
  <<"fog", "mist", "visibility", "storm", "thunderstorm", "hurricane", "typhoon",
    "cyclone", "wind", "gale", "breeze", "wave", "swell", "sea state", "rain",
    "precipitation", "downpour", "snow", "ice", "freeze", "weather",
    "meteorological", "atmospheric">>

\* The delay reasons of the model, with two that hold several keywords.
ReasonTexts ==
  {AllReasons[k] : k \in 1..Len(AllReasons)}
    \cup {"Thunderstorm at port", "Service delay"}

\* reason.toLowerCase().includes(keyword), for the reasons of the model.
reasonIncludes(reason, keyword) ==
  <<reason, keyword>> \in
    {<<"fog", "fog">>, <<"swell", "swell">>,
     <<"Thunderstorm at port", "storm">>, <<"Thunderstorm at port", "thunderstorm">>,
     <<"Service delay", "ice">>}

\* weatherKeywords.filter(keyword => lowerReason.includes(keyword))
RECURSIVE matchedKeywords(_, _)
matchedKeywords(reason, keywords) ==
  IF keywords = <<>> THEN <<>>
  ELSE (IF reasonIncludes(reason, Head(keywords)) THEN <<Head(keywords)>> ELSE <<>>)
         \o matchedKeywords(reason, Tail(keywords))

\* Mutant: a keyword match is reported with the confidence of the threshold.
keywordAnalyzeDelayConfident(delayReason) ==
  LET matched == matchedKeywords(delayReason, weatherKeywords)
      isWeatherRelated == \E k \in 1..Len(weatherKeywords) :
                            reasonIncludes(delayReason, weatherKeywords[k])
  IN DelayAnalysisResult(isWeatherRelated,
       IF isWeatherRelated THEN <<"Matched weather keywords", matched>>
       ELSE <<"No weather keywords found">>,
       IF isWeatherRelated THEN 80 ELSE 90)

\* KeywordDelayAnalyzerService.analyzeDelay (lines 33-50).
keywordAnalyzeDelay(delayReason) ==
  LET matched == matchedKeywords(delayReason, weatherKeywords)
      isWeatherRelated == \E k \in 1..Len(weatherKeywords) :
                            reasonIncludes(delayReason, weatherKeywords[k])
  IN DelayAnalysisResult(isWeatherRelated,
       IF isWeatherRelated THEN <<"Matched weather keywords", matched>>
       ELSE <<"No weather keywords found">>,
       IF isWeatherRelated THEN 70 ELSE 90)

\* The retry policies of the classifier's configuration.
ClassifierPolicies ==
  {RetryOptions(m, 1000, 3000, 10) : m \in (-1)..MaxClassifierRetries}

\* An error client.responses.create or parseResponse raises; status is the
\* status of an OpenAI.APIError (None when it has none), isApiError tells
\* whether it is an instance of OpenAI.APIError.
ModelError(name, message, isApiError, status) ==
  [isError |-> TRUE, name |-> name, message |-> message, origin |-> "callOpenAI",
   apiError |-> isApiError, status |-> status]

CreateRejections ==
  {ModelError("RateLimitError", "429 Rate limit reached", TRUE, Some(429)),
   ModelError("InternalServerError", "500 Internal error", TRUE, Some(500)),
   ModelError("BadRequestError", "400 Invalid request", TRUE, Some(400)),
   ModelError("AuthenticationError", "401 Incorrect API key", TRUE, Some(401)),
   ModelError("APIConnectionError", "Connection error.", TRUE, None),
   ModelError("Error", "network socket disconnected", FALSE, None)}

\* response.output_text: json is what /\{[\s\S]*\}/ matches (None when there
\* is no match), parses tells whether JSON.parse accepts it, object is the
\* parsed value with the properties that are there.
OutputText(json, parses, object) == [json |-> json, parses |-> parses, object |-> object]

ParsedObject(isWeatherRelated, confidence) ==
  [isWeatherRelated |-> isWeatherRelated, reasoning |-> Some("because"),
   confidence |-> confidence]

OutputTexts ==
  {OutputText(FALSE, FALSE, None), OutputText(TRUE, FALSE, None)}
    \cup {OutputText(TRUE, TRUE, Some(ParsedObject(w, c))) :
            w \in {None, Some(TRUE), Some(FALSE)},
            c \in {None, Some(-10), Some(65), Some(80), Some(150)}}

\* What the promise of client.responses.create can settle with.
CreateSettlements ==
  {Fulfilled(t) : t \in OutputTexts} \cup {Rejected(e) : e \in CreateRejections}

\* DelayAnalysisResponseSchema accepts the object.
schemaAccepts(object) ==
  /\ object.isWeatherRelated # None
  /\ object.reasoning # None
  /\ object.confidence # None
  /\ object.confidence[1] >= 0 /\ object.confidence[1] <= 100

parseFailure ==
  ModelError("Error", "Failed to parse OpenAI response", FALSE, None)

\* parseResponse (lines 63-75): the result, or the error it raises.
parseResponse(outputText) ==
  IF ~outputText.json \/ ~outputText.parses \/ ~schemaAccepts(outputText.object[1])
  THEN Rejected(parseFailure)
  ELSE LET object == outputText.object[1] IN
         Fulfilled(DelayAnalysisResult(object.isWeatherRelated[1], object.reasoning[1],
                                       object.confidence[1]))

\* Mutant: a verdict below 0.8 is raised as a retryable error, so the
\* classifier asks again by itself.
callOpenAIUntilConfident(settlement) ==
  IF settlement.status = "rejected" THEN settlement
  ELSE LET parsed == parseResponse(settlement.value) IN
         IF parsed.status = "fulfilled" /\ parsed.value.confidence < 80
         THEN Rejected(ModelError("LowConfidenceError", "network socket disconnected",
                                  FALSE, None))
         ELSE parsed

\* callOpenAI after client.responses.create settled (lines 35-41).
callOpenAI(settlement) ==
  IF settlement.status = "rejected" THEN settlement
  ELSE parseResponse(settlement.value)

\* message.toLowerCase().includes(word), for the messages of the classifier.
messageIncludes(message, word) ==
  <<message, word>> \in {<<"network socket disconnected", "network">>}

\* OpenAIDelayAnalyzerService.isRetryableError (lines 77-97).
isRetryableModelError(error) ==
  \/ \E word \in {"timeout", "econnrefused", "enotfound", "network"} :
       messageIncludes(error.message, word)
  \/ /\ error.apiError
     /\ error.status # None
     /\ error.status[1] = 429 \/ error.status[1] >= 500

\* The predicate handed to retryWithBackoff (line 26), as the set of messages
\* it answers true for.
classifierRetryable ==
  {e.message : e \in {x \in CreateRejections \cup {parseFailure} :
                        isRetryableModelError(x)}}

\* Mutant: the error of the external call is passed on.
analyzeDelayRethrows(r, delayReason) ==
  IF r.pc = "returned" THEN Fulfilled(r.outcome[1])
  ELSE Rejected(r.outcome[1].name)

\* analyzeDelay after retryWithBackoff settled (lines 23-31): the value, or
\* in the catch block the verdict of the fallback analyzer.
analyzeDelay(r, delayReason) ==
  IF r.pc = "returned" THEN Fulfilled(r.outcome[1])
  ELSE Fulfilled(keywordAnalyzeDelay(delayReason))

\* What analyzeDelay settles with when the keyword classifier gives the
\* verdict: as the injected IDelayAnalyzer, or in the catch block of
\* OpenAIDelayAnalyzerService.analyzeDelay after the external call failed.
KeywordSettlements(delayReason) ==
  {Fulfilled(keywordAnalyzeDelay(delayReason)),
   analyzeDelay([pc |-> "threw"], delayReason)}

\* The service as constructed with a configuration, and the argument of its
\* analyzeDelay call; pc is "idle", "awaitRetry", "returned" or "threw";
\* requests counts the client.responses.create calls of the analyzeDelay
\* calls that have settled.
ClassifierService(options, delayReason) ==
  [config |-> options, pc |-> "idle", delayReason |-> delayReason,
   outcome |-> None, requests |-> 0]

\* The client.responses.create calls of a retryWithBackoff call.
createCalls(r) == Cardinality({n \in 1..Len(r.events) : r.events[n] = "call"})

\* ------------------------------------------------------ JSON file adapters
\* TMSJsonAdapter and WindwardJsonAdapter keep a cache (None while null, else
\* the set of its keys) that ensureCacheLoaded fills from a file on the first
\* lookup.
\* Lookups made of one adapter (SpecAdapter).
MaxLookups == 3

AdapterKinds == {"TMSJsonAdapter", "WindwardJsonAdapter"}

\* The file: parses tells whether JSON.parse accepts its content, iterable
\* whether the parsed value is an array, entries are the elements, each with
\* the key it maps to and a kind: "valid", "invalid" (the mapping raises: it
\* fails validation) or "broken" (null, or without the properties the loop
\* itself reads).
FileContent(parses, iterable, entries) ==
  [parses |-> parses, iterable |-> iterable, entries |-> entries]

Entry(key, kind) == [key |-> key, kind |-> kind]

FileContents ==
  {FileContent(FALSE, FALSE, <<>>),
   FileContent(TRUE, FALSE, <<>>),
   FileContent(TRUE, TRUE, <<>>),
   FileContent(TRUE, TRUE, <<Entry("S1", "valid"), Entry("S2", "valid")>>),
   FileContent(TRUE, TRUE, <<Entry("S1", "valid"), Entry("S2", "invalid")>>),
   FileContent(TRUE, TRUE, <<Entry("S1", "valid"), Entry("S2", "broken")>>)}

\* What the promise of readFile can settle with, the file holding content.
ReadSettlements(content) == {Fulfilled(content), Rejected("ENOENT")}

\* The loop over the parsed entries, from the cache built so far: the cache
\* it leaves and whether it ran to its end.  The TMS adapter (lines 92-103)
\* and the Windward adapter of part_008 (lines 100-113) catch the error of
\* mapping one entry and skip the entry; the Windward adapter of
\* windward-json.adapter.ts (lines 78-83) does not.
RECURSIVE buildCache(_, _, _)
buildCache(kind, entries, cache) ==
  IF entries = <<>> THEN [cache |-> cache, completed |-> TRUE]
  ELSE LET entry == Head(entries) IN
    IF entry.kind = "valid"
    THEN buildCache(kind, Tail(entries), cache \cup {entry.key})
    ELSE IF entry.kind = "invalid" /\ kind = "TMSJsonAdapter"
    THEN buildCache(kind, Tail(entries), cache)
    ELSE [cache |-> cache, completed |-> FALSE]

\* ensureCacheLoaded after readFile settled (TMS lines 86-116): the cache it
\* leaves and the success of the Result it returns.  The cache is assigned a
\* new Map before the loop (line 89).
loadCache(kind, cache, settlement) ==
  IF settlement.status = "rejected" \/ ~settlement.value.parses
  THEN [cache |-> cache, success |-> FALSE]
  ELSE IF ~settlement.value.iterable
  THEN [cache |-> Some({}), success |-> FALSE]
  ELSE LET built == buildCache(kind, settlement.value.entries, {}) IN
         [cache |-> Some(built.cache), success |-> built.completed]

\* One getShipmentById / getTrackingByContainer call: pc is "awaitRead" (its
\* ensureCacheLoaded awaits readFile), "awaitLoaded" (ensureCacheLoaded has
\* returned, the lookup has not resumed) or "returned"; loaded is the success
\* of the Result of ensureCacheLoaded; result is "found", "notfound" or
\* "failure".
Lookup(id, lookupPc, loaded) ==
  [id |-> id, pc |-> lookupPc, loaded |-> loaded, result |-> None]

\* The lookup up to its first await (TMS lines 57 and 81-86): the cache is
\* there, or readFile is called.
startLookup(a, id) ==
  IF a.cache # None
  THEN [a EXCEPT !.lookups = Append(@, Lookup(id, "awaitLoaded", Some(TRUE)))]
  ELSE [a EXCEPT !.lookups = Append(@, Lookup(id, "awaitRead", None)),
                 !.reads = @ + 1]

\* The lookup after ensureCacheLoaded returned (TMS lines 58-77).
lookupResult(a, lookup) ==
  IF ~lookup.loaded[1] THEN "failure"
  ELSE IF a.cache # None /\ lookup.id \in a.cache[1] THEN "found"
  ELSE "notfound"

\* The adapter as constructed over a file: reads counts the calls of
\* readFile, loads lists the success of each load that ended, in that order.
JsonAdapter(kind, content) ==
  [kind |-> kind, file |-> content, pc |-> "constructed", cache |-> None,
   reads |-> 0, loads |-> <<>>, lookups |-> <<>>]

\* ------------------------------------------------- enrichRecordsWithErrors
\* Strings built by concatenation are sequences of their pieces.
\* index.ts line 66: `${error.errorType}: ${error.message}`
errorText(error) == <<error.errorType, ": ", error.message>>

\* index.ts lines 62-72: errorMap.get(key) after the loop over errs (None when
\* the map has no such key).
RECURSIVE errorMapGet(_, _)
errorMapGet(errs, key) ==
  IF errs = <<>> THEN None
  ELSE LET error == errs[Len(errs)]
           existing == errorMapGet(SubSeq(errs, 1, Len(errs) - 1), key)
       IN IF error.containerNumber # key THEN existing
          ELSE IF existing # None
          THEN Some(existing[1] \o <<"; ">> \o errorText(error))
          ELSE Some(errorText(error))

\* Mutant: the record keeps its own lastUpdated and loses what the tracking
\* gave it.
enrichRecordKeysOnly(record, errs, timestamp) ==
  [error |-> IF errorMapGet(errs, record.sglShipmentNo) # None
             THEN errorMapGet(errs, record.sglShipmentNo)
             ELSE errorMapGet(errs, record.containerNumber)]
    @@ [record EXCEPT !.scac = None, !.delayReasons = None]

\* index.ts lines 75-79: the spread record with lastUpdated and error set.
enrichRecord(record, errs, timestamp) ==
  [error |-> IF errorMapGet(errs, record.sglShipmentNo) # None
             THEN errorMapGet(errs, record.sglShipmentNo)
             ELSE errorMapGet(errs, record.containerNumber)]
    @@ [record EXCEPT !.lastUpdated = timestamp]

\* enrichRecordsWithErrors (index.ts lines 58-80, api-server.ts lines 69-89).
enrichRecordsWithErrors(recs, errs, timestamp) ==
  [k \in 1..Len(recs) |-> enrichRecord(recs[k], errs, timestamp)]

\* ------------------------------------------------------ web page (page.tsx)
MaxPageRecords == 3

\* String.prototype.trim on the pieces of text the page sees.
trim(text) ==
  CASE text = " S1 " -> "S1"
    [] text = " S2" -> "S2"
    [] text = " " -> ""
    [] OTHER -> text

\* The separators of split(/[\n,]/).
Separators == {",", "\n"}

\* The content of the textarea: pieces of text with a separator between two
\* of them.
PageTexts ==
  {<<"">>, <<"S1">>, <<"S2">>, <<" S1 ", ",", " S2">>, <<"S1", "\n", "S1">>,
   <<"S2", "\n", "">>, <<" ", ",", "">>, <<"", "\n", " ">>}

\* shipmentIds.trim(): not empty when something but white space is in it.
trimmedIsEmpty(text) ==
  \A k \in 1..Len(text) : text[k] = "\n" \/ trim(text[k]) = ""

\* handleAnalyze lines 77-80: split, trim each piece, drop the empty ones.
RECURSIVE splitIds(_)
splitIds(text) ==
  IF text = <<>> THEN <<>>
  ELSE IF Head(text) \in Separators \/ trim(Head(text)) = ""
  THEN splitIds(Tail(text))
  ELSE <<trim(Head(text))>> \o splitIds(Tail(text))

\* What can be typed into the inline input of the table.
NewIdTexts == {"", " ", "S1", " S1 ", "S2"}

\* analyzeShipments behind POST /api/analyze for one ID: S1 is a shipment
\* with one container and no tracking, any other ID is not found.
analysisOf(id) ==
  IF id = "S1"
  THEN [records |-> <<buildBaseRecord(Shipment(id, <<"A1">>), "A1", None)>>,
        errors |-> <<>>]
  ELSE [records |-> <<buildErrorRecord(id)>>,
        errors |-> <<AnalysisError(id, "SHIPMENT_NOT_FOUND", "not found")>>]

RECURSIVE analysisOfAll(_)
analysisOfAll(ids) ==
  IF ids = <<>> THEN [records |-> <<>>, errors |-> <<>>]
  ELSE [records |-> analysisOf(Head(ids)).records \o analysisOfAll(Tail(ids)).records,
        errors |-> analysisOf(Head(ids)).errors \o analysisOfAll(Tail(ids)).errors]

\* The body of a 200 response (api-server.ts lines 37-52).
AnalysisResult(ids, timestamp) ==
  [success |-> TRUE,
   records |-> enrichRecordsWithErrors(analysisOfAll(ids).records,
                                       analysisOfAll(ids).errors, timestamp),
   errors |-> analysisOfAll(ids).errors,
   timestamp |-> timestamp,
   error |-> None]

\* The body of a 500 response (api-server.ts lines 55-60, route.ts lines
\* 38-46).
ErrorBody(message) ==
  [success |-> FALSE, records |-> <<>>, errors |-> <<>>, timestamp |-> "",
   error |-> message]

\* What fetch("/api/analyze") settles with: a response and its ok flag, or
\* a network failure.
PageFetchSettlements ==
  {Fulfilled([ok |-> TRUE]), Fulfilled([ok |-> FALSE]), Rejected("Failed to fetch")}

\* What response.json() settles with.
PageJsonSettlements(ok, ids) ==
  IF ok THEN {Fulfilled(AnalysisResult(ids, t)) : t \in Timestamps}
  ELSE {Fulfilled(ErrorBody(Some("Unknown error occurred"))),
        Fulfilled(ErrorBody(None)),
        Rejected("Unexpected token < in JSON")}

\* lines 98-100 and 126-128: data.error || "Analysis failed".
failureMessage(data) ==
  IF data.error # None THEN data.error[1] ELSE "Analysis failed"

\* A handler waiting for fetch or json: the IDs it sent, the `result` of the
\* render it was created in, the ok flag of the response.
PageRequest(at, ids, closure, ok) ==
  [pc |-> at, ids |-> ids, result |-> closure, ok |-> ok]

NoRequest == PageRequest("idle", <<>>, None, FALSE)

\* Home (lines 62-69): the state of the component after mounting.  The
\* search box stays empty.
Home ==
  [pc |-> "mounted",
   shipmentIds |-> <<"">>,
   loading |-> FALSE,
   result |-> None,
   error |-> None,
   newShipmentId |-> "",
   analyzingNewId |-> FALSE,
   analyze |-> NoRequest,
   add |-> NoRequest]

\* handleAnalyze up to its first await (lines 71-94).
handleAnalyze(home) ==
  LET ids == splitIds(home.shipmentIds)
      started == [home EXCEPT !.loading = TRUE, !.error = None, !.result = None]
  IN IF ids = <<>>
     THEN [started EXCEPT !.error = Some("Please enter at least one shipment ID"),
                          !.loading = FALSE]
     ELSE [started EXCEPT !.analyze = PageRequest("awaitFetch", ids, None, FALSE)]

\* handleAnalyze after fetch settled (lines 88-96, 103-107).
analyzeAfterFetch(home, settlement) ==
  IF settlement.status = "fulfilled"
  THEN [home EXCEPT !.analyze.pc = "awaitJson", !.analyze.ok = settlement.value.ok]
  ELSE [home EXCEPT !.error = settlement.reason, !.loading = FALSE,
                    !.analyze = NoRequest]

\* handleAnalyze after response.json() settled (lines 96-107).
analyzeAfterJson(home, settlement) ==
  IF settlement.status = "rejected"
  THEN [home EXCEPT !.error = settlement.reason, !.loading = FALSE,
                    !.analyze = NoRequest]
  ELSE IF ~home.analyze.ok
  THEN [home EXCEPT !.error = Some(failureMessage(settlement.value)),
                    !.loading = FALSE, !.analyze = NoRequest]
  ELSE [home EXCEPT !.result = Some(settlement.value), !.loading = FALSE,
                    !.analyze = NoRequest]

\* handleAddNewShipment up to its first await (lines 110-122).
handleAddNewShipment(home, id) ==
  IF trim(id) = "" THEN home
  ELSE [home EXCEPT !.analyzingNewId = TRUE,
                    !.add = PageRequest("awaitFetch", <<trim(id)>>, home.result, FALSE)]

\* handleAddNewShipment after fetch settled (lines 116-124, 141-145).
addAfterFetch(home, settlement) ==
  IF settlement.status = "fulfilled"
  THEN [home EXCEPT !.add.pc = "awaitJson", !.add.ok = settlement.value.ok]
  ELSE [home EXCEPT !.error = settlement.reason, !.analyzingNewId = FALSE,
                    !.add = NoRequest]

\* lines 130-138: the records and errors of the
\* response are appended to those of the handler's `result`.
appendToResult(closure, data) ==
  [closure EXCEPT !.records = closure.records \o data.records,
                  !.errors = closure.errors \o data.errors,
                  !.timestamp = data.timestamp]

\* handleAddNewShipment after response.json() settled (lines 124-145).
addAfterJson(home, settlement) ==
  IF settlement.status = "rejected"
  THEN [home EXCEPT !.error = settlement.reason, !.analyzingNewId = FALSE,
                    !.add = NoRequest]
  ELSE IF ~home.add.ok
  THEN [home EXCEPT !.error = Some(failureMessage(settlement.value)),
                    !.analyzingNewId = FALSE, !.add = NoRequest]
  ELSE [home EXCEPT
          !.result = IF home.add.result # None
                     THEN Some(appendToResult(home.add.result[1], settlement.value))
                     ELSE home.result,
          !.newShipmentId = "",
          !.analyzingNewId = FALSE,
          !.add = NoRequest]

\* The form with the textarea and the Analyze button is rendered (line 314).
formShown(home) == home.result = None

\* The row with the inline input is rendered (lines 387, 397, 439).
inlineInputShown(home) ==
  /\ home.result # None
  /\ ~home.loading
  /\ Len(home.result[1].records) > 0
  /\ ~home.analyzingNewId

\* ------------------------------------------------------------------- state
VARIABLES
  shipmentIds,   \* the argument of analyzeShipments
  batchSize,     \* the injected BatchSize
  pc,            \* "idle", "awaitChunk", "returned" or "threw"
  chunks,        \* chunkArray(shipmentIds, batchSize)
  chunkIdx,      \* index of the chunk being awaited
  tasks,         \* the processShipment tasks of that chunk, in input order
  records,       \* analyzeShipments' records
  errors,        \* analyzeShipments' errors
  settled,       \* the tasks of the chunks already collected, in input order
  limits,        \* size of the data the sources hold: containers, reasons
  retry,         \* the retryWithBackoff call in progress, else NoRetry
  enriched,      \* what enrichRecordsWithErrors returned (None before it ran)
  provider,      \* the OpenMeteoWeatherProvider and its getWeather call
  classifier,    \* the OpenAIDelayAnalyzerService and its analyzeDelay call
  adapter,       \* a JSON file adapter: its cache and its lookups
  page           \* the web page (Home component)

vars ==
  <<shipmentIds, batchSize, pc, chunks, chunkIdx, tasks, records, errors, settled,
    limits, retry, enriched, provider, classifier, adapter, page>>

\* The components around the orchestrator.
components == <<enriched, provider, classifier, adapter, page>>

\* No component is part of the run.
NoProvider == [pc |-> "none"]

NoClassifier == [pc |-> "none"]

NoAdapter == [pc |-> "none"]

NoPage == [pc |-> "none"]

ComponentsIdle ==
  /\ enriched = None
  /\ provider = NoProvider
  /\ classifier = NoClassifier
  /\ adapter = NoAdapter
  /\ page = NoPage

\* Size of the data the sources have returned so far in this run.
containersSoFar == containersIn(settled \o tasks)

reasonsSoFar == reasonsInAll(settled \o tasks)

\* The service as constructed, analyzeShipments not yet called.
Constructed ==
  /\ pc = "idle"
  /\ chunks = <<>>
  /\ chunkIdx = 0
  /\ tasks = <<>>
  /\ records = <<>>
  /\ errors = <<>>
  /\ settled = <<>>

Init ==
  /\ shipmentIds \in SeqsUpTo(ShipmentIdSet, MaxIds)
  /\ batchSize \in 1..MaxBatch
  /\ limits = [containers |-> MaxContainers, reasons |-> MaxFanoutReasons]
  /\ retry = NoRetry
  /\ ComponentsIdle
  /\ Constructed

InitContainer ==
  /\ shipmentIds \in {<<id>> : id \in ShipmentIdSet}
  /\ batchSize = 1
  /\ limits = [containers |-> 1, reasons |-> MaxReasons]
  /\ retry = NoRetry
  /\ ComponentsIdle
  /\ Constructed

\* A longer input list, one container and one delay reason in the sources.
InitBatching ==
  /\ shipmentIds \in SeqsUpTo(ShipmentIdSet, MaxBatchIds)
  /\ batchSize \in 1..MaxBatch
  /\ limits = [containers |-> 1, reasons |-> 1]
  /\ retry = NoRetry
  /\ ComponentsIdle
  /\ Constructed

\* analyzeShipments up to its first await (or its return for no chunk).
AnalyzeShipments ==
  /\ pc = "idle"
  /\ LET cs == chunkArray(shipmentIds, batchSize) IN
       /\ chunks' = cs
       /\ IF cs = <<>>
          THEN /\ pc' = "returned"
               /\ UNCHANGED <<chunkIdx, tasks>>
          ELSE /\ pc' = "awaitChunk"
               /\ chunkIdx' = 1
               /\ tasks' = launchChunk(cs[1])
  /\ UNCHANGED <<shipmentIds, batchSize, records, errors, settled, limits, retry, components>>

\* A getShipmentById promise settles and processShipment resumes.
ShipmentSettles(i) ==
  /\ pc = "awaitChunk"
  /\ tasks[i].pc = "awaitShipment"
  /\ \E s \in ShipmentSettlements(tasks[i].shipmentId,
                                   limits.containers - containersSoFar) :
       LET st == processShipment(tasks[i], s) IN
         \* allSettled of no container task resolves at once
         tasks' = [tasks EXCEPT ![i] = st]
  /\ UNCHANGED <<shipmentIds, batchSize, pc, chunks, chunkIdx, records, errors, settled, limits, retry, components>>

\* A getTrackingByContainer promise settles and processContainer resumes.
TrackingSettles(i, j) ==
  /\ pc = "awaitChunk"
  /\ tasks[i].pc = "awaitContainers"
  /\ tasks[i].containers[j].pc = "awaitTracking"
  /\ \E s \in TrackingSettlements(tasks[i].containers[j].containerNumber,
                                   limits.reasons - reasonsSoFar) :
       tasks' = [tasks EXCEPT ![i].containers[j] =
                   processContainer(shipmentOf(tasks[i]), @, s)]
  /\ UNCHANGED <<shipmentIds, batchSize, pc, chunks, chunkIdx, records, errors, settled, limits, retry, components>>

\* An analyzeDelay promise settles and analyzeDelayWithConfidenceCheck resumes.
DelayAnalysisSettles(i, j) ==
  /\ pc = "awaitChunk"
  /\ tasks[i].pc = "awaitContainers"
  /\ tasks[i].containers[j].pc = "awaitClassifier"
  /\ \E s \in DelaySettlements :
       tasks' = [tasks EXCEPT ![i].containers[j] =
                   analyzeDelayWithConfidenceCheck(@, s)]
  /\ UNCHANGED <<shipmentIds, batchSize, pc, chunks, chunkIdx, records, errors, settled, limits, retry, components>>

\* A getWeather promise settles and fetchWeatherSafely resumes.
WeatherSettles(i, j) ==
  /\ pc = "awaitChunk"
  /\ tasks[i].pc = "awaitContainers"
  /\ tasks[i].containers[j].pc = "awaitWeather"
  /\ \E s \in WeatherSettlements :
       tasks' = [tasks EXCEPT ![i].containers[j] = afterWeather(@, s)]
  /\ UNCHANGED <<shipmentIds, batchSize, pc, chunks, chunkIdx, records, errors, settled, limits, retry, components>>

\* Promise.allSettled over the container tasks resolves; processShipment
\* collects them and returns.
ContainersSettled(i) ==
  /\ pc = "awaitChunk"
  /\ tasks[i].pc = "awaitContainers"
  /\ \A j \in 1..Len(tasks[i].containers) : containerSettled(tasks[i].containers[j])
  /\ tasks' = [tasks EXCEPT ![i] = collectContainers(@)]
  /\ UNCHANGED <<shipmentIds, batchSize, pc, chunks, chunkIdx, records, errors, settled, limits, retry, components>>

\* Promise.allSettled over the chunk's tasks resolves; analyzeShipments
\* collects them, then launches the next chunk or returns.
ChunkSettled ==
  /\ pc = "awaitChunk"
  /\ \A i \in 1..Len(tasks) : shipmentSettled(tasks[i])
  /\ IF allSettledOutcome(tasks) = "fulfilled"
     THEN /\ records' = records \o chunkRecords(tasks)
          /\ errors' = errors \o chunkErrors(tasks)
          /\ settled' = settled \o tasks
          /\ IF chunkIdx < Len(chunks)
             THEN /\ chunkIdx' = chunkIdx + 1
                  /\ tasks' = launchChunk(chunks[chunkIdx + 1])
                  /\ pc' = "awaitChunk"
             ELSE /\ pc' = "returned"
                  /\ tasks' = <<>>
                  /\ UNCHANGED chunkIdx
     ELSE /\ pc' = "threw"
          /\ UNCHANGED <<records, errors, settled, chunkIdx, tasks>>
  /\ UNCHANGED <<shipmentIds, batchSize, chunks, limits, retry, components>>

Next ==
  \/ AnalyzeShipments
  \/ \E i \in 1..Len(tasks) : ShipmentSettles(i)
  \/ \E i \in 1..Len(tasks) : \E j \in 1..Len(tasks[i].containers) : TrackingSettles(i, j)
  \/ \E i \in 1..Len(tasks) : \E j \in 1..Len(tasks[i].containers) : DelayAnalysisSettles(i, j)
  \/ \E i \in 1..Len(tasks) : \E j \in 1..Len(tasks[i].containers) : WeatherSettles(i, j)
  \/ \E i \in 1..Len(tasks) : ContainersSettled(i)
  \/ ChunkSettled

Spec == Init /\ [][Next]_vars

SpecContainer == InitContainer /\ [][Next]_vars

SpecBatching == InitBatching /\ [][Next]_vars

\* Two shipments with up to two containers and two delay reasons between
\* them, in one chunk or in two.
InitOrder ==
  /\ shipmentIds = <<"S1", "S2">>
  /\ batchSize \in 1..MaxBatch
  /\ limits = [containers |-> MaxContainers, reasons |-> MaxOrderReasons]
  /\ retry = NoRetry
  /\ ComponentsIdle
  /\ Constructed

SpecOrder == InitOrder /\ [][Next]_vars

\* An analyzeDelay promise settles with the keyword classifier's verdict and
\* analyzeDelayWithConfidenceCheck resumes.
KeywordAnalysisSettles(i, j) ==
  /\ pc = "awaitChunk"
  /\ tasks[i].pc = "awaitContainers"
  /\ tasks[i].containers[j].pc = "awaitClassifier"
  /\ LET ct == tasks[i].containers[j] IN
       \E s \in KeywordSettlements(ct.tracking[1].delayReasons[ct.reasonIdx]) :
         tasks' = [tasks EXCEPT ![i].containers[j] =
                     analyzeDelayWithConfidenceCheck(@, s)]
  /\ UNCHANGED <<shipmentIds, batchSize, pc, chunks, chunkIdx, records, errors, settled, limits, retry, components>>

\* The orchestrator over the keyword classifier; no getWeather promise is
\* ever awaited in it.
NextKeyword ==
  \/ AnalyzeShipments
  \/ \E i \in 1..Len(tasks) : ShipmentSettles(i)
  \/ \E i \in 1..Len(tasks) : \E j \in 1..Len(tasks[i].containers) : TrackingSettles(i, j)
  \/ \E i \in 1..Len(tasks) : \E j \in 1..Len(tasks[i].containers) : KeywordAnalysisSettles(i, j)
  \/ \E i \in 1..Len(tasks) : ContainersSettled(i)
  \/ ChunkSettled

SpecKeyword == InitContainer /\ [][NextKeyword]_vars

\* ----------------------------------------------- retryWithBackoff: actions
orchestrator ==
  <<shipmentIds, batchSize, pc, chunks, chunkIdx, tasks, records, errors, settled,
    limits>>

\* One retryWithBackoff call with any policy and predicate; the orchestrator
\* is not running.
InitRetry ==
  /\ shipmentIds = <<>>
  /\ batchSize = 1
  /\ limits = [containers |-> 0, reasons |-> 0]
  /\ Constructed
  /\ ComponentsIdle
  /\ retry \in {RetryCall(o, p) : o \in Policies, p \in RetryablePredicates}

\* retryWithBackoff up to its first await.
RetryWithBackoff ==
  /\ retry.pc = "idle"
  /\ retry' = retryLoop(retry)
  /\ UNCHANGED <<orchestrator, components>>

\* The promise of operation() settles.
OperationSettles ==
  /\ retry.pc = "awaitOperation"
  /\ \E s \in OperationSettlements(retry.attempt + 1), random \in Randoms :
       retry' = afterOperation(retry, s, random)
  /\ UNCHANGED <<orchestrator, components>>

\* The promise of sleep(delay) resolves.
SleepResolves ==
  /\ retry.pc = "awaitSleep"
  /\ retry' = afterSleep(retry)
  /\ UNCHANGED <<orchestrator, components>>

NextRetry ==
  \/ RetryWithBackoff
  \/ OperationSettles
  \/ SleepResolves

SpecRetry == InitRetry /\ [][NextRetry]_vars

\* ------------------------------------------------------------- termination
\* Either an analyzeShipments call (no retryWithBackoff call in the model) or
\* a retryWithBackoff call on its own.  Every pending promise of a
\* collaborator, of the operation and of sleep settles at some time, and a
\* continuation that can run does run: while a step is possible, one is taken.
InitTermination == InitBatching \/ InitRetry

NextTermination ==
  \/ retry.pc = "none" /\ AnalyzeShipments
  \/ \E i \in 1..Len(tasks) : ShipmentSettles(i)
  \/ \E i \in 1..Len(tasks) : \E j \in 1..Len(tasks[i].containers) : TrackingSettles(i, j)
  \/ \E i \in 1..Len(tasks) : \E j \in 1..Len(tasks[i].containers) : DelayAnalysisSettles(i, j)
  \/ \E i \in 1..Len(tasks) : \E j \in 1..Len(tasks[i].containers) : WeatherSettles(i, j)
  \/ \E i \in 1..Len(tasks) : ContainersSettled(i)
  \/ ChunkSettled
  \/ RetryWithBackoff
  \/ OperationSettles
  \/ SleepResolves

SpecTermination ==
  InitTermination /\ [][NextTermination]_vars /\ WF_vars(NextTermination)

\* ------------------------------------- OpenMeteoWeatherProvider: actions
\* One shipment with at most one container; getWeather is served by the
\* provider, with any retry policy of WeatherPolicies.
InitWeather ==
  /\ shipmentIds = <<"S1">>
  /\ batchSize = 1
  /\ limits = [containers |-> 1, reasons |-> 1]
  /\ retry = NoRetry
  /\ Constructed
  /\ enriched = None
  /\ provider \in {WeatherProvider(o) : o \in WeatherPolicies}
  /\ classifier = NoClassifier
  /\ adapter = NoAdapter
  /\ page = NoPage

\* getWeather up to its first await (lines 42-60): the date check, then
\* retryWithBackoff up to its first await.
GetWeather(i, j) ==
  /\ pc = "awaitChunk"
  /\ tasks[i].pc = "awaitContainers"
  /\ tasks[i].containers[j].pc = "awaitWeather"
  /\ provider.pc = "idle"
  /\ \E clock \in Clocks :
       LET date == parseDate(tasks[i].containers[j].tracking[1].actualArrival[1])
           called == [provider EXCEPT !.date = Some(date), !.clock = Some(clock)]
       IN IF isFutureDate(date, clock)
          THEN /\ provider' =
                    [called EXCEPT !.pc = "returned",
                       !.outcome = Some(Fulfilled(WeatherResult("NO_DATA_AVAILABLE",
                                     None, Some("Requested date is in the future"))))]
               /\ UNCHANGED retry
          ELSE /\ provider' = [called EXCEPT !.pc = "awaitRetry"]
               /\ retry' = retryLoop(RetryCall(provider.config, weatherRetryable))
  /\ UNCHANGED <<orchestrator, enriched, classifier, adapter, page>>

\* The promise of fetch() settles and fetchWeatherData resumes.
FetchSettles ==
  /\ provider.pc = "awaitRetry"
  /\ retry.pc = "awaitOperation"
  /\ provider.op = "fetch"
  /\ \E s \in FetchSettlements, random \in Randoms :
       IF afterFetch(s) = None
       THEN /\ provider' = [provider EXCEPT !.op = "json"]
            /\ UNCHANGED retry
       ELSE /\ retry' = afterOperation(retry, afterFetch(s)[1], random)
            /\ UNCHANGED provider
  /\ UNCHANGED <<orchestrator, enriched, classifier, adapter, page>>

\* The promise of response.json() settles and fetchWeatherData resumes.
JsonSettles ==
  /\ provider.pc = "awaitRetry"
  /\ retry.pc = "awaitOperation"
  /\ provider.op = "json"
  /\ \E s \in JsonSettlements, random \in Randoms :
       /\ retry' = afterOperation(retry, afterJson(s), random)
       /\ provider' = [provider EXCEPT !.op = "fetch"]
  /\ UNCHANGED <<orchestrator, enriched, classifier, adapter, page>>

\* retryWithBackoff settled and getWeather resumes (lines 62-75).
GetWeatherResumes ==
  /\ provider.pc = "awaitRetry"
  /\ retry.pc \in {"returned", "threw"}
  /\ LET s == afterRetry(retry, provider.date[1]) IN
       provider' = [provider EXCEPT
                      !.pc = IF s.status = "fulfilled" THEN "returned" ELSE "threw",
                      !.outcome = Some(s)]
  /\ UNCHANGED <<orchestrator, retry, enriched, classifier, adapter, page>>

\* The promise of getWeather settles and fetchWeatherSafely resumes.
WeatherReturns(i, j) ==
  /\ pc = "awaitChunk"
  /\ tasks[i].pc = "awaitContainers"
  /\ tasks[i].containers[j].pc = "awaitWeather"
  /\ provider.pc \in {"returned", "threw"}
  /\ tasks' = [tasks EXCEPT ![i].containers[j] = afterWeather(@, provider.outcome[1])]
  /\ UNCHANGED <<shipmentIds, batchSize, pc, chunks, chunkIdx, records, errors, settled, limits, retry, components>>

NextWeather ==
  \/ AnalyzeShipments
  \/ \E i \in 1..Len(tasks) : ShipmentSettles(i)
  \/ \E i \in 1..Len(tasks) : \E j \in 1..Len(tasks[i].containers) : TrackingSettles(i, j)
  \/ \E i \in 1..Len(tasks) : \E j \in 1..Len(tasks[i].containers) : DelayAnalysisSettles(i, j)
  \/ \E i \in 1..Len(tasks) : \E j \in 1..Len(tasks[i].containers) : GetWeather(i, j)
  \/ FetchSettles
  \/ JsonSettles
  \/ SleepResolves
  \/ GetWeatherResumes
  \/ \E i \in 1..Len(tasks) : \E j \in 1..Len(tasks[i].containers) : WeatherReturns(i, j)
  \/ \E i \in 1..Len(tasks) : ContainersSettled(i)
  \/ ChunkSettled

SpecWeather == InitWeather /\ [][NextWeather]_vars

\* ----------------------------------- OpenAIDelayAnalyzerService: actions
\* One analyzeDelay call with any policy and any reason; the orchestrator is
\* not running.
InitClassifier ==
  /\ shipmentIds = <<>>
  /\ batchSize = 1
  /\ limits = [containers |-> 0, reasons |-> 0]
  /\ Constructed
  /\ retry = NoRetry
  /\ enriched = None
  /\ provider = NoProvider
  /\ classifier \in {ClassifierService(o, t) : o \in ClassifierPolicies, t \in ReasonTexts}
  /\ adapter = NoAdapter
  /\ page = NoPage

\* analyzeDelay up to its await: retryWithBackoff up to its first await.
AnalyzeDelay ==
  /\ classifier.pc = "idle"
  /\ classifier' = [classifier EXCEPT !.pc = "awaitRetry"]
  /\ retry' = retryLoop(RetryCall(classifier.config, classifierRetryable))
  /\ UNCHANGED <<orchestrator, enriched, provider, adapter, page>>

\* The promise of client.responses.create settles and callOpenAI resumes.
CreateSettles ==
  /\ classifier.pc = "awaitRetry"
  /\ retry.pc = "awaitOperation"
  /\ \E s \in CreateSettlements, random \in Randoms :
       retry' = afterOperation(retry, callOpenAI(s), random)
  /\ UNCHANGED <<orchestrator, components>>

\* retryWithBackoff settled and analyzeDelay resumes.
AnalyzeDelayResumes ==
  /\ classifier.pc = "awaitRetry"
  /\ retry.pc \in {"returned", "threw"}
  /\ LET s == analyzeDelay(retry, classifier.delayReason) IN
       classifier' = [classifier EXCEPT
                        !.pc = IF s.status = "fulfilled" THEN "returned" ELSE "threw",
                        !.outcome = Some(s),
                        !.requests = @ + createCalls(retry)]
  /\ UNCHANGED <<orchestrator, retry, enriched, provider, adapter, page>>

NextClassifier ==
  \/ AnalyzeDelay
  \/ CreateSettles
  \/ SleepResolves
  \/ AnalyzeDelayResumes

SpecClassifier == InitClassifier /\ [][NextClassifier]_vars

\* --------------------------- OpenAIDelayAnalyzerService under the orchestrator
\* One shipment with one container and one delay reason; the injected
\* IDelayAnalyzer is the OpenAIDelayAnalyzerService with any policy.
InitGate ==
  /\ shipmentIds = <<"S1">>
  /\ batchSize = 1
  /\ limits = [containers |-> 1, reasons |-> 1]
  /\ retry = NoRetry
  /\ Constructed
  /\ enriched = None
  /\ provider = NoProvider
  /\ classifier \in {ClassifierService(o, AllReasons[1]) : o \in ClassifierPolicies}
  /\ adapter = NoAdapter
  /\ page = NoPage

\* analyzeDelayWithConfidenceCheck calls analyzeDelay (lines 126 and 137):
\* analyzeDelay up to its await.
GateCallsAnalyzeDelay(i, j) ==
  /\ pc = "awaitChunk"
  /\ tasks[i].pc = "awaitContainers"
  /\ tasks[i].containers[j].pc = "awaitClassifier"
  /\ classifier.pc = "idle"
  /\ LET ct == tasks[i].containers[j] IN
       classifier' = [classifier EXCEPT
                        !.pc = "awaitRetry",
                        !.delayReason = ct.tracking[1].delayReasons[ct.reasonIdx]]
  /\ retry' = retryLoop(RetryCall(classifier.config, classifierRetryable))
  /\ UNCHANGED <<orchestrator, enriched, provider, adapter, page>>

\* The promise of analyzeDelay settles and analyzeDelayWithConfidenceCheck
\* resumes.
AnalyzeDelayReturns(i, j) ==
  /\ pc = "awaitChunk"
  /\ tasks[i].pc = "awaitContainers"
  /\ tasks[i].containers[j].pc = "awaitClassifier"
  /\ classifier.pc \in {"returned", "threw"}
  /\ tasks' = [tasks EXCEPT ![i].containers[j] =
                  analyzeDelayWithConfidenceCheck(@, classifier.outcome[1])]
  /\ classifier' = [classifier EXCEPT !.pc = "idle", !.outcome = None]
  /\ UNCHANGED <<shipmentIds, batchSize, pc, chunks, chunkIdx, records, errors, settled, limits, retry, enriched, provider, adapter, page>>

NextGate ==
  \/ AnalyzeShipments
  \/ \E i \in 1..Len(tasks) : ShipmentSettles(i)
  \/ \E i \in 1..Len(tasks) : \E j \in 1..Len(tasks[i].containers) : TrackingSettles(i, j)
  \/ \E i \in 1..Len(tasks) : \E j \in 1..Len(tasks[i].containers) : GateCallsAnalyzeDelay(i, j)
  \/ CreateSettles
  \/ SleepResolves
  \/ AnalyzeDelayResumes
  \/ \E i \in 1..Len(tasks) : \E j \in 1..Len(tasks[i].containers) : AnalyzeDelayReturns(i, j)
  \/ \E i \in 1..Len(tasks) : \E j \in 1..Len(tasks[i].containers) : WeatherSettles(i, j)
  \/ \E i \in 1..Len(tasks) : ContainersSettled(i)
  \/ ChunkSettled

SpecGate == InitGate /\ [][NextGate]_vars

\* ------------------------------------------------ JSON file adapters: actions
InitAdapter ==
  /\ shipmentIds = <<>>
  /\ batchSize = 1
  /\ limits = [containers |-> 0, reasons |-> 0]
  /\ Constructed
  /\ retry = NoRetry
  /\ enriched = None
  /\ provider = NoProvider
  /\ classifier = NoClassifier
  /\ adapter \in {JsonAdapter(k, c) : k \in AdapterKinds, c \in FileContents}
  /\ page = NoPage

\* A caller starts a lookup (getShipmentById, getTrackingByContainer).
StartLookup ==
  /\ adapter.pc = "constructed"
  /\ Len(adapter.lookups) < MaxLookups
  /\ \E id \in ShipmentIdSet : adapter' = startLookup(adapter, id)
  /\ UNCHANGED <<orchestrator, retry, enriched, provider, classifier, page>>

\* The promise of readFile settles and ensureCacheLoaded runs to its return.
ReadSettles(k) ==
  /\ adapter.pc = "constructed"
  /\ adapter.lookups[k].pc = "awaitRead"
  /\ \E s \in ReadSettlements(adapter.file) :
       LET load == loadCache(adapter.kind, adapter.cache, s) IN
         adapter' = [adapter EXCEPT
                       !.cache = load.cache,
                       !.loads = Append(@, load.success),
                       !.lookups[k].pc = "awaitLoaded",
                       !.lookups[k].loaded = Some(load.success)]
  /\ UNCHANGED <<orchestrator, retry, enriched, provider, classifier, page>>

\* The promise of ensureCacheLoaded has settled and the lookup resumes.
LookupResumes(k) ==
  /\ adapter.pc = "constructed"
  /\ adapter.lookups[k].pc = "awaitLoaded"
  /\ adapter' = [adapter EXCEPT
                   !.lookups[k].pc = "returned",
                   !.lookups[k].result = Some(lookupResult(adapter, adapter.lookups[k]))]
  /\ UNCHANGED <<orchestrator, retry, enriched, provider, classifier, page>>

NextAdapter ==
  \/ StartLookup
  \/ \E k \in 1..Len(adapter.lookups) : ReadSettles(k)
  \/ \E k \in 1..Len(adapter.lookups) : LookupResumes(k)

SpecAdapter == InitAdapter /\ [][NextAdapter]_vars

\* ------------------------------------------- enrichRecordsWithErrors: action
\* main (index.ts lines 27-31) and POST /api/analyze (api-server.ts lines
\* 38-42) after analyzeShipments returned: the timestamp is read, the records
\* are enriched.
Enrich ==
  /\ pc = "returned"
  /\ enriched = None
  /\ \E timestamp \in Timestamps :
       enriched' = Some([records |-> enrichRecordsWithErrors(records, errors, timestamp),
                         timestamp |-> timestamp])
  /\ UNCHANGED <<orchestrator, retry, provider, classifier, adapter, page>>

NextEnrich ==
  \/ AnalyzeShipments
  \/ \E i \in 1..Len(tasks) : ShipmentSettles(i)
  \/ \E i \in 1..Len(tasks) : \E j \in 1..Len(tasks[i].containers) : TrackingSettles(i, j)
  \/ \E i \in 1..Len(tasks) : \E j \in 1..Len(tasks[i].containers) : DelayAnalysisSettles(i, j)
  \/ \E i \in 1..Len(tasks) : \E j \in 1..Len(tasks[i].containers) : WeatherSettles(i, j)
  \/ \E i \in 1..Len(tasks) : ContainersSettled(i)
  \/ ChunkSettled
  \/ Enrich

SpecEnrich == Init /\ [][NextEnrich]_vars

\* ------------------------------------------------------- web page: actions
\* The page is mounted; the orchestrator runs behind the API, not here.
InitPage ==
  /\ shipmentIds = <<>>
  /\ batchSize = 1
  /\ limits = [containers |-> 0, reasons |-> 0]
  /\ Constructed
  /\ retry = NoRetry
  /\ enriched = None
  /\ provider = NoProvider
  /\ classifier = NoClassifier
  /\ adapter = NoAdapter
  /\ page = Home

\* The user edits the textarea (onChange: setShipmentIds).
SetShipmentIds ==
  /\ page.pc = "mounted"
  /\ formShown(page)
  /\ \E text \in PageTexts \ {page.shipmentIds} :
       page' = [page EXCEPT !.shipmentIds = text]
  /\ UNCHANGED <<orchestrator, retry, enriched, provider, classifier, adapter>>

\* The user clicks Analyze (lines 338-339): handleAnalyze up to its await.
HandleAnalyze ==
  /\ page.pc = "mounted"
  /\ formShown(page)
  /\ ~page.loading
  /\ ~trimmedIsEmpty(page.shipmentIds)
  /\ page' = handleAnalyze(page)
  /\ UNCHANGED <<orchestrator, retry, enriched, provider, classifier, adapter>>

\* The promise of fetch settles and handleAnalyze resumes.
AnalyzeFetchSettles ==
  /\ page.pc = "mounted"
  /\ page.analyze.pc = "awaitFetch"
  /\ \E s \in PageFetchSettlements : page' = analyzeAfterFetch(page, s)
  /\ UNCHANGED <<orchestrator, retry, enriched, provider, classifier, adapter>>

\* The promise of response.json() settles and handleAnalyze resumes.
AnalyzeJsonSettles ==
  /\ page.pc = "mounted"
  /\ page.analyze.pc = "awaitJson"
  /\ \E s \in PageJsonSettlements(page.analyze.ok, page.analyze.ids) :
       page' = analyzeAfterJson(page, s)
  /\ UNCHANGED <<orchestrator, retry, enriched, provider, classifier, adapter>>

\* The user types into the inline input (line 448: setNewShipmentId).
SetNewShipmentId ==
  /\ page.pc = "mounted"
  /\ inlineInputShown(page)
  /\ \E text \in NewIdTexts \ {page.newShipmentId} :
       page' = [page EXCEPT !.newShipmentId = text]
  /\ UNCHANGED <<orchestrator, retry, enriched, provider, classifier, adapter>>

\* The user presses Enter in the inline input (lines 449-453):
\* handleAddNewShipment up to its await.
HandleAddNewShipment ==
  /\ page.pc = "mounted"
  /\ inlineInputShown(page)
  /\ trim(page.newShipmentId) # ""
  /\ Len(page.result[1].records) < MaxPageRecords
  /\ page' = handleAddNewShipment(page, page.newShipmentId)
  /\ UNCHANGED <<orchestrator, retry, enriched, provider, classifier, adapter>>

\* The promise of fetch settles and handleAddNewShipment resumes.
AddFetchSettles ==
  /\ page.pc = "mounted"
  /\ page.add.pc = "awaitFetch"
  /\ \E s \in PageFetchSettlements : page' = addAfterFetch(page, s)
  /\ UNCHANGED <<orchestrator, retry, enriched, provider, classifier, adapter>>

\* The promise of response.json() settles and handleAddNewShipment resumes.
AddJsonSettles ==
  /\ page.pc = "mounted"
  /\ page.add.pc = "awaitJson"
  /\ \E s \in PageJsonSettlements(page.add.ok, page.add.ids) :
       page' = addAfterJson(page, s)
  /\ UNCHANGED <<orchestrator, retry, enriched, provider, classifier, adapter>>

\* The user clicks New Analysis (lines 480-489).
NewAnalysis ==
  /\ page.pc = "mounted"
  /\ page.result # None
  /\ page' = [page EXCEPT !.result = None, !.shipmentIds = <<"">>]
  /\ UNCHANGED <<orchestrator, retry, enriched, provider, classifier, adapter>>

NextPage ==
  \/ SetShipmentIds
  \/ HandleAnalyze
  \/ AnalyzeFetchSettles
  \/ AnalyzeJsonSettles
  \/ SetNewShipmentId
  \/ HandleAddNewShipment
  \/ AddFetchSettles
  \/ AddJsonSettles
  \/ NewAnalysis

SpecPage == InitPage /\ [][NextPage]_vars





\* ------------------------------------------------------ claims: vocabulary
\* Every processShipment task launched so far, in input order.
allTasks == settled \o tasks

lookupReturned(st) == st.lookup # None /\ st.lookup[1].status = "fulfilled"

lookupThrew(st) == st.lookup # None /\ st.lookup[1].status = "rejected"

unresolved(st) == lookupReturned(st) /\ ~isSuccess(st.lookup[1].value)

resolved(st) == lookupReturned(st) /\ isSuccess(st.lookup[1].value)

\* Records the claim of total accounting asks of one ID occurrence.
expectedRecords(st) ==
  IF unresolved(st) THEN 1
  ELSE IF resolved(st) THEN Len(shipmentOf(st).containers)
  ELSE 0

RECURSIVE expectedTotal(_)
expectedTotal(sts) ==
  IF sts = <<>> THEN 0 ELSE expectedRecords(Head(sts)) + expectedTotal(Tail(sts))

classifierThrew(ct) == \E g \in 1..Len(ct.gate) : ct.gate[g].outcome = "threw"

noCallThrew(st) ==
  /\ ~lookupThrew(st)
  /\ \A j \in 1..Len(st.containers) :
       st.containers[j].lookup # "threw" /\ ~classifierThrew(st.containers[j])

isPlaceholder(r, id) ==
  /\ r.sglShipmentNo = id
  /\ r.customerName = <<>> /\ r.shipperName = <<>> /\ r.containerNumber = ""
  /\ r.scac = None /\ r.initialCarrierETA = None /\ r.actualArrivalAt = None
  /\ r.delayReasons = None
  /\ r.temperature = None /\ r.windSpeed = None /\ r.weatherFetchStatus = None

CountIn(seq, P(_)) == Cardinality({k \in 1..Len(seq) : P(seq[k])})

\* ---------------------------------------------------------------------- C1
\* C1: whenever every shipment lookup and every tracking lookup returned one of
\* its three results, the records analyzeShipments returns number one per
\* unresolved ID occurrence plus containers.length per resolved one, and each
\* task contributed exactly that many.
C1_TotalAccounting ==
  (/\ pc = "returned"
   /\ \A k \in 1..Len(settled) :
        /\ lookupReturned(settled[k])
        /\ \A j \in 1..Len(settled[k].containers) :
             settled[k].containers[j].lookup # "threw")
  => /\ Len(records) = expectedTotal(settled)
     /\ \A k \in 1..Len(settled) :
          /\ settled[k].pc = "fulfilled"
          /\ Len(settled[k].records) = expectedRecords(settled[k])

\* The accounting of C1 in the runs where no collaborator call rejects.
TotalAccountingWhenNothingThrows ==
  (pc = "returned" /\ \A k \in 1..Len(settled) : noCallThrew(settled[k]))
  => /\ Len(records) = expectedTotal(settled)
     /\ Len(settled) = Len(shipmentIds)

\* ---------------------------------------------------------------------- C2
failedWeather(ct) ==
  \/ (ct.record # None /\ ct.record[1].weatherFetchStatus \in
        {Some("RETRY_EXHAUSTED"), Some("FATAL_ERROR")})

hasErrorFor(key, types) ==
  \E e \in 1..Len(errors) :
    errors[e].containerNumber \in {key, "unknown"} /\ errors[e].errorType \in types

hasRecordFor(id, cn) ==
  \E r \in 1..Len(records) :
    records[r].sglShipmentNo = id /\ records[r].containerNumber = cn

\* C2: in the returned result every failed lookup or call (returned as a
\* failure, or raised) has an error entry and the shipment ID or container it
\* happened in still has its placeholder or partial record.
C2_FailureDegradation ==
  pc = "returned" =>
    \A k \in 1..Len(settled) :
      LET st == settled[k] IN
        /\ (lookupThrew(st) \/ unresolved(st)) =>
             /\ hasErrorFor(st.shipmentId, {"SHIPMENT_NOT_FOUND", "SHIPMENT_FETCH_ERROR"})
             /\ hasRecordFor(st.shipmentId, "")
        /\ \A j \in 1..Len(st.containers) :
             LET ct == st.containers[j] IN
               /\ ct.lookup \in {"failure", "threw"} =>
                    /\ hasErrorFor(ct.containerNumber, {"TRACKING_FETCH_ERROR"})
                    /\ hasRecordFor(st.shipmentId, ct.containerNumber)
               /\ classifierThrew(ct) =>
                    hasRecordFor(st.shipmentId, ct.containerNumber)
               /\ (\E g \in 1..Len(ct.gate) : ct.gate[g].outcome = "discarded") =>
                    /\ hasErrorFor(ct.containerNumber, {"DELAY_ANALYSIS_LOW_CONFIDENCE"})
                    /\ hasRecordFor(st.shipmentId, ct.containerNumber)
               /\ failedWeather(ct) =>
                    /\ hasErrorFor(ct.containerNumber, {"WEATHER_FETCH_ERROR"})
                    /\ hasRecordFor(st.shipmentId, ct.containerNumber)

\* ---------------------------------------------------------------------- C3
rejectedContainers(st) == CountIn(st.containers, LAMBDA ct : ct.pc = "rejected")

RECURSIVE rejectedContainersIn(_)
rejectedContainersIn(sts) ==
  IF sts = <<>> THEN 0
  ELSE (IF Head(sts).pc = "fulfilled" THEN rejectedContainers(Head(sts)) ELSE 0)
         + rejectedContainersIn(Tail(sts))

\* C3: analyzeShipments never rejects; when it returns, every task that a
\* raising collaborator made reject is one entry of errors and nothing else.
C3_NeverRejects ==
  /\ pc # "threw"
  /\ pc = "returned" =>
       /\ Len(settled) = Len(shipmentIds)
       /\ CountIn(errors, LAMBDA e : e.containerNumber = "unknown"
                                      /\ e.errorType = "SHIPMENT_FETCH_ERROR")
            = CountIn(settled, LAMBDA st : st.pc = "rejected")
       /\ CountIn(errors, LAMBDA e : e.containerNumber = "unknown"
                                      /\ e.errorType = "TRACKING_FETCH_ERROR")
            = rejectedContainersIn(settled)

C3_Witness ==
  /\ pc = "returned"
  /\ \E k \in 1..Len(settled) : settled[k].pc = "rejected"
  /\ \E k \in 1..Len(settled) : \E j \in 1..Len(settled[k].containers) :
       classifierThrew(settled[k].containers[j])
  /\ \E k \in 1..Len(settled) : \E j \in 1..Len(settled[k].containers) :
       settled[k].containers[j].lookup = "threw"

\* ---------------------------------------------------------------------- C4
\* C4: every ID passed to analyzeShipments has a record in the returned
\* records.
C4_EveryIdAppears ==
  pc = "returned" =>
    \A n \in 1..Len(shipmentIds) :
      \E r \in 1..Len(records) : records[r].sglShipmentNo = shipmentIds[n]

\* ---------------------------------------------------------------------- C5
\* C5: a task whose shipment lookup returned not-found or failure has exactly
\* one placeholder record, exactly one error keyed by its ID and typed
\* SHIPMENT_NOT_FOUND / SHIPMENT_FETCH_ERROR by the kind of result, is
\* fulfilled, and has started no container task, hence made no tracking,
\* classifier or weather call; both reach the returned result.
C5_ShipmentResolution ==
  \A k \in 1..Len(allTasks) :
    LET st == allTasks[k] IN
      unresolved(st) =>
        /\ st.pc = "fulfilled"
        /\ Len(st.records) = 1 /\ isPlaceholder(st.records[1], st.shipmentId)
        /\ Len(st.errors) = 1
        /\ st.errors[1].containerNumber = st.shipmentId
        /\ st.errors[1].errorType =
             (IF resultKind(st.lookup[1].value) = "notfound"
              THEN "SHIPMENT_NOT_FOUND" ELSE "SHIPMENT_FETCH_ERROR")
        /\ st.containers = <<>>
        /\ pc = "returned" =>
             /\ \E r \in 1..Len(records) : records[r] = st.records[1]
             /\ \E e \in 1..Len(errors) : errors[e] = st.errors[1]

C5_Witness ==
  /\ pc = "returned"
  /\ \E k \in 1..Len(settled) :
       unresolved(settled[k]) /\ resultKind(settled[k].lookup[1].value) = "notfound"
  /\ \E k \in 1..Len(settled) :
       unresolved(settled[k]) /\ resultKind(settled[k].lookup[1].value) = "failure"


\* ------------------------------------------------- claims about a container
\* P holds of every processContainer task launched so far and its shipment.
EveryContainer(P(_, _)) ==
  \A k \in 1..Len(allTasks) : \A j \in 1..Len(allTasks[k].containers) :
    P(allTasks[k], allTasks[k].containers[j])

SomeContainer(P(_, _)) ==
  \E k \in 1..Len(allTasks) : \E j \in 1..Len(allTasks[k].containers) :
    P(allTasks[k], allTasks[k].containers[j])

\* r has the shipment-level fields of st's shipment and nothing else.
isBaseOnly(r, st, cn) ==
  /\ r.sglShipmentNo = st.shipmentId
  /\ r.customerName = <<"customer", st.shipmentId>>
  /\ r.shipperName = <<"shipper", st.shipmentId>>
  /\ r.containerNumber = cn
  /\ r.scac = None /\ r.initialCarrierETA = None /\ r.actualArrivalAt = None
  /\ r.delayReasons = None
  /\ r.temperature = None /\ r.windSpeed = None /\ r.weatherFetchStatus = None

errorsOfType(errs, type) == {e \in 1..Len(errs) : errs[e].errorType = type}

acceptedTrue(g) == g.outcome = "accepted" /\ g.analysis[1].isWeatherRelated

\* ---------------------------------------------------------------------- C6
trackingErrorsFor(errs, cn) ==
  {e \in errorsOfType(errs, "TRACKING_FETCH_ERROR") : errs[e].containerNumber = cn}

C6_OfContainer(st, ct) ==
  /\ ct.lookup = "notfound" =>
       /\ ct.pc = "fulfilled" /\ ct.errors = <<>>
       /\ ct.record # None /\ isBaseOnly(ct.record[1], st, ct.containerNumber)
       /\ ct.classifierCalls = <<>> /\ ct.weatherCalls = 0
  /\ ct.lookup = "failure" =>
       /\ ct.pc = "fulfilled" /\ Len(ct.errors) = 1
       /\ ct.errors[1].containerNumber = ct.containerNumber
       /\ ct.errors[1].errorType = "TRACKING_FETCH_ERROR"
       /\ ct.record # None /\ isBaseOnly(ct.record[1], st, ct.containerNumber)
       /\ ct.classifierCalls = <<>> /\ ct.weatherCalls = 0
  /\ (ct.lookup \in {"notfound", "failure"} /\ st.pc = "fulfilled") =>
       /\ \E r \in 1..Len(st.records) : st.records[r] = ct.record[1]
       /\ Cardinality(trackingErrorsFor(st.errors, ct.containerNumber))
            = (IF ct.lookup = "failure" THEN 1 ELSE 0)
  /\ (ct.lookup = "threw" /\ st.pc = "fulfilled") =>
       errorsOfType(st.errors, "TRACKING_FETCH_ERROR") # {}

\* C6: a tracking lookup that returns not-found adds no error, one that returns
\* failure adds exactly one TRACKING_FETCH_ERROR keyed by the container; both
\* yield the base record with shipment-level fields only and make no
\* classifier or weather call; a lookup that raises produces a
\* TRACKING_FETCH_ERROR.
C6_TrackingTriState ==
  /\ EveryContainer(C6_OfContainer)
  /\ pc = "returned" =>
       \A k \in 1..Len(settled) :
         settled[k].pc = "fulfilled" =>
           /\ \A e \in errorsOfType(settled[k].errors, "TRACKING_FETCH_ERROR") :
                \E n \in 1..Len(errors) : errors[n] = settled[k].errors[e]
           /\ \A r \in 1..Len(settled[k].records) :
                \E n \in 1..Len(records) : records[n] = settled[k].records[r]

C6_Witness ==
  /\ pc = "returned"
  /\ SomeContainer(LAMBDA st, ct : ct.lookup = "failure")
  /\ SomeContainer(LAMBDA st, ct : ct.lookup = "notfound")
  /\ Cardinality(errorsOfType(errors, "TRACKING_FETCH_ERROR")) = 1

\* ---------------------------------------------------------------------- C7
callsFor(ct, idx) ==
  Cardinality({n \in 1..Len(ct.classifierCalls) : ct.classifierCalls[n] = idx})

hasFirstVerdict(g) == ~(g.outcome = "threw" /\ g.calls = 1)

C7_OfContainer(st, ct) ==
  /\ \A n \in 1..Len(ct.gate) :
       LET g == ct.gate[n] IN
         /\ g.calls \in {1, 2}
         /\ callsFor(ct, g.reason) = g.calls
         /\ hasFirstVerdict(g) => (g.firstMet <=> g.calls = 1)
         /\ (g.calls = 1 /\ g.outcome = "accepted") => g.analysis[1].confidence >= 80
  /\ ct.pc = "awaitClassifier" =>
       /\ ct.attempt \in {1, 2}
       /\ callsFor(ct, ct.reasonIdx) = ct.attempt
       /\ ct.attempt = 2 => ct.first[1].confidence < 80
  /\ \A idx \in 1..Len(AllReasons) : callsFor(ct, idx) <= 2
  /\ Len(ct.classifierCalls) <= 2 * reasonsOf(ct)

\* C7: the classifier is called at most twice per delay reason, exactly once
\* when the first verdict has confidence >= 0.8 and exactly twice when it is
\* below, so a container with k delay reasons causes at most 2k calls.
C7_CallBound == EveryContainer(C7_OfContainer)

C7_Witness ==
  SomeContainer(LAMBDA st, ct :
    /\ ct.pc = "fulfilled"
    /\ \E n \in 1..Len(ct.gate) :
         /\ ct.gate[n].calls = 1 /\ ct.gate[n].outcome = "accepted"
         /\ ct.gate[n].analysis[1].confidence = 80
    /\ \E n \in 1..Len(ct.gate) : ct.gate[n].calls = 2 /\ ~ct.gate[n].firstMet)

\* ---------------------------------------------------------------------- C8
reasonText(ct, idx) == ct.tracking[1].delayReasons[idx]

lowConfidenceErrorsFor(ct, idx) ==
  {e \in errorsOfType(ct.errors, "DELAY_ANALYSIS_LOW_CONFIDENCE") :
     ct.errors[e].message[3] = reasonText(ct, idx)}

C8_OfContainer(st, ct) ==
  /\ \A n \in 1..Len(ct.gate) :
       LET g == ct.gate[n] IN
         /\ g.outcome = "discarded" =>
              /\ g.calls = 2 /\ ~g.firstMet /\ g.analysis[1].confidence < 80
              /\ Cardinality(lowConfidenceErrorsFor(ct, g.reason)) = 1
              /\ \A e \in lowConfidenceErrorsFor(ct, g.reason) :
                   /\ ct.errors[e].containerNumber = ct.containerNumber
                   /\ ct.errors[e].message[2] = g.analysis[1].confidence
         /\ g.outcome = "accepted" =>
              /\ g.analysis[1].confidence >= 80
              /\ lowConfidenceErrorsFor(ct, g.reason) = {}
  /\ Cardinality(errorsOfType(ct.errors, "DELAY_ANALYSIS_LOW_CONFIDENCE"))
       = Cardinality({n \in 1..Len(ct.gate) : ct.gate[n].outcome = "discarded"})
  /\ ct.hasWeatherDelay => \E n \in 1..Len(ct.gate) : acceptedTrue(ct.gate[n])

\* C8: a reason whose two verdicts are both below 0.8 is left out of the
\* weather determination and gets exactly one DELAY_ANALYSIS_LOW_CONFIDENCE
\* error, keyed by the container and carrying the confidence of the second
\* attempt and the reason text; an accepted verdict is the last attempt's and
\* adds no error.
C8_LowConfidenceDiscard == EveryContainer(C8_OfContainer)

C8_Witness ==
  SomeContainer(LAMBDA st, ct :
    /\ ct.pc = "fulfilled" /\ ~ct.hasWeatherDelay
    /\ ct.record[1].weatherFetchStatus = None
    /\ \E n \in 1..Len(ct.gate) :
         /\ ct.gate[n].outcome = "discarded"
         /\ ct.gate[n].firstWeather /\ ct.gate[n].analysis[1].isWeatherRelated
    /\ \E n \in 1..Len(ct.gate) :
         ct.gate[n].outcome = "accepted" /\ ct.gate[n].calls = 2)

\* ---------------------------------------------------------------------- C9
continues(g) == g.outcome = "discarded" \/ (g.outcome = "accepted" /\ ~acceptedTrue(g))

C9_OfContainer(st, ct) ==
  /\ \A n \in 1..Len(ct.gate) : ct.gate[n].reason = n
  /\ \A n \in 1..Len(ct.classifierCalls) :
       /\ n = 1 => ct.classifierCalls[n] = 1
       /\ n > 1 => ct.classifierCalls[n] \in
                     {ct.classifierCalls[n - 1], ct.classifierCalls[n - 1] + 1}
       /\ ct.classifierCalls[n] <= Len(ct.gate) + 1
  /\ \A n \in 1..Len(ct.gate) :
       /\ n < Len(ct.gate) => continues(ct.gate[n])
       /\ acceptedTrue(ct.gate[n]) =>
            /\ n = Len(ct.gate)
            /\ ct.pc # "awaitClassifier"
            /\ ct.classifierCalls[Len(ct.classifierCalls)] = n
       /\ (continues(ct.gate[n]) /\ n = Len(ct.gate) /\ n < reasonsOf(ct)) =>
            ct.pc = "awaitClassifier" /\ ct.reasonIdx = n + 1

\* C9: delay reasons are classified in source order, one at a time; after an
\* accepted isWeatherRelated=true verdict no later reason is classified; an
\* accepted false verdict or a discarded one moves on to the next reason.
C9_ShortCircuit == EveryContainer(C9_OfContainer)

C9_Witness ==
  SomeContainer(LAMBDA st, ct :
    /\ ct.pc = "fulfilled" /\ reasonsOf(ct) >= 3
    /\ Len(ct.gate) = 2
    /\ ct.gate[1].outcome = "discarded"
    /\ acceptedTrue(ct.gate[2]))

\* --------------------------------------------------------------------- C10
C10_OfContainer(st, ct) ==
  /\ ct.weatherCalls <= 1
  /\ ct.pc = "fulfilled" =>
       LET r == ct.record[1]
           determined == \E n \in 1..Len(ct.gate) : acceptedTrue(ct.gate[n])
       IN /\ r.weatherFetchStatus # None <=> determined
          /\ ~determined =>
               /\ ct.weatherCalls = 0
               /\ r.weatherFetchStatus = None
               /\ r.temperature = None /\ r.windSpeed = None
          /\ st.pc = "fulfilled" => \E n \in 1..Len(st.records) : st.records[n] = r
  /\ (ct.pc = "awaitWeather" \/ ct.weatherCalls = 1) =>
       \E n \in 1..Len(ct.gate) : acceptedTrue(ct.gate[n])

\* C10: an emitted record has weatherFetchStatus exactly when some delay
\* reason of its container got an accepted isWeatherRelated=true verdict;
\* without one the weather source is not called and the three weather fields
\* are absent; the weather source is called at most once per container.
C10_WeatherApplicability == EveryContainer(C10_OfContainer)

C10_Witness ==
  /\ pc = "returned"
  /\ \E n \in 1..Len(records) :
       records[n].weatherFetchStatus = Some("SUCCESS") /\ records[n].temperature # None
  /\ SomeContainer(LAMBDA st, ct : ct.weatherCalls = 1 /\ Len(ct.gate) >= 2)

\* The other side of C10: every reason classified, none weather-related.
C10_WitnessAbsent ==
  /\ pc = "returned"
  /\ SomeContainer(LAMBDA st, ct :
       /\ ct.pc = "fulfilled" /\ reasonsOf(ct) >= 2 /\ Len(ct.gate) = reasonsOf(ct)
       /\ ct.record[1].weatherFetchStatus = None)

\* --------------------------------------------------------------------- C11
determined(ct) == \E n \in 1..Len(ct.gate) : acceptedTrue(ct.gate[n])

discarded(ct) == {n \in 1..Len(ct.gate) : ct.gate[n].outcome = "discarded"}

missingPortOrArrival(ct) ==
  /\ ct.tracking # None
  /\ (ct.tracking[1].destinationPort = None \/ ct.tracking[1].actualArrival = None)

C11_OfContainer(st, ct) ==
  /\ (determined(ct) /\ missingPortOrArrival(ct)) =>
       /\ ct.pc = "fulfilled"
       /\ ct.record[1].weatherFetchStatus = Some("NO_DATA_AVAILABLE")
       /\ ct.record[1].temperature = None /\ ct.record[1].windSpeed = None
       /\ ct.weatherCalls = 0 /\ ct.weather = "none"
       /\ errorsOfType(ct.errors, "WEATHER_FETCH_ERROR") = {}
       /\ Len(ct.errors) = Cardinality(discarded(ct))
       /\ st.pc = "fulfilled" =>
            /\ \E n \in 1..Len(st.records) : st.records[n] = ct.record[1]
            /\ Len(st.errors) = Len(ct.errors)
  /\ (determined(ct) /\ ~missingPortOrArrival(ct)) => ct.weatherCalls = 1

\* C11: when a weather-related delay was determined and the tracking lacks
\* destinationPort or actualArrival, the record gets weatherFetchStatus
\* NO_DATA_AVAILABLE without temperature or wind speed, the weather source is
\* not called and no error is appended (the errors are those of the discarded
\* reasons); with both present the weather source is called.
C11_WeatherPreconditions ==
  /\ EveryContainer(C11_OfContainer)
  /\ pc = "returned" =>
       EveryContainer(LAMBDA st, ct :
         (determined(ct) /\ missingPortOrArrival(ct)) =>
           /\ \E n \in 1..Len(records) : records[n] = ct.record[1]
           /\ errorsOfType(errors, "WEATHER_FETCH_ERROR") = {})

C11_Witness ==
  /\ pc = "returned"
  /\ Len(records) = 1
  /\ records[1].weatherFetchStatus = Some("NO_DATA_AVAILABLE")
  /\ Len(errors) = 1 /\ errors[1].errorType = "DELAY_ANALYSIS_LOW_CONFIDENCE"
  /\ SomeContainer(LAMBDA st, ct :
       /\ determined(ct) /\ ct.weatherCalls = 0
       /\ ct.tracking[1].destinationPort = None
       /\ ct.tracking[1].actualArrival # None)

\* --------------------------------------------------------------------- C12
weatherErrorsFor(errs, cn) ==
  {e \in errorsOfType(errs, "WEATHER_FETCH_ERROR") : errs[e].containerNumber = cn}

\* C12: in the returned result every record whose weatherFetchStatus is
\* RETRY_EXHAUSTED or FATAL_ERROR has a WEATHER_FETCH_ERROR keyed by its
\* container number in errors, whether getWeather returned that outcome or
\* raised.
C12_WeatherFailureRecorded ==
  pc = "returned" =>
    \A n \in 1..Len(records) :
      records[n].weatherFetchStatus \in {Some("RETRY_EXHAUSTED"), Some("FATAL_ERROR")}
        => weatherErrorsFor(errors, records[n].containerNumber) # {}

\* --------------------------------------------------------------------- C13
C13_OfContainer(st, ct) ==
  ct.weather = "threw" =>
    /\ ct.pc = "fulfilled"
    /\ ct.record[1].weatherFetchStatus = Some("FATAL_ERROR")
    /\ ct.record[1].temperature = None /\ ct.record[1].windSpeed = None
    /\ ct.record[1].containerNumber = ct.containerNumber
    /\ Cardinality(weatherErrorsFor(ct.errors, ct.containerNumber)) = 1
    /\ \A e \in errorsOfType(ct.errors, "WEATHER_FETCH_ERROR") :
         /\ ct.errors[e].containerNumber = ct.containerNumber
         /\ ct.errors[e].message = "weather source threw"
    /\ st.pc = "fulfilled" =>
         /\ Len(st.records) =
              Cardinality({j \in 1..Len(st.containers) : st.containers[j].pc = "fulfilled"})
         /\ \E n \in 1..Len(st.records) : st.records[n] = ct.record[1]
         /\ Cardinality(weatherErrorsFor(st.errors, ct.containerNumber)) = 1
         /\ \A j \in 1..Len(st.containers) :
              st.containers[j].pc = "fulfilled" =>
                \E n \in 1..Len(st.records) : st.records[n] = st.containers[j].record[1]

\* C13: when getWeather raises for a container, its record is still emitted
\* with weatherFetchStatus FATAL_ERROR and no temperature or wind speed, exactly
\* one WEATHER_FETCH_ERROR keyed by the container and carrying the raised
\* message is appended, and every other container of the shipment keeps the
\* record its own task built.
C13_RaisingWeatherContained ==
  /\ EveryContainer(C13_OfContainer)
  /\ pc = "returned" =>
       EveryContainer(LAMBDA st, ct :
         ct.weather = "threw" =>
           /\ \E n \in 1..Len(records) : records[n] = ct.record[1]
           /\ Cardinality(weatherErrorsFor(errors, ct.containerNumber)) = 1)

C13_Witness ==
  /\ pc = "returned"
  /\ Len(records) = 2
  /\ \E k \in 1..Len(settled) :
       /\ Len(settled[k].containers) = 2
       /\ settled[k].containers[1].weather = "threw"
       /\ settled[k].containers[2].pc = "fulfilled"
       /\ settled[k].containers[2].lookup = "found"

\* --------------------------------------------------------------------- C14
RECURSIVE Flatten(_)
Flatten(ss) == IF ss = <<>> THEN <<>> ELSE Head(ss) \o Flatten(Tail(ss))

idsOf(sts) == [k \in 1..Len(sts) |-> sts[k].shipmentId]

inFlight == {i \in 1..Len(tasks) : tasks[i].pc \notin {"fulfilled", "rejected"}}

\* C14: the chunks are consecutive slices of the input of exactly batchSize
\* IDs, the last one of 1..batchSize, none empty, and concatenate to the input;
\* the tasks running are those of one chunk, launched only after every task of
\* the chunks before it has settled, so at most batchSize shipment tasks are
\* in flight.
C14_Batching ==
  pc # "idle" =>
    /\ Flatten(chunks) = shipmentIds
    /\ \A k \in 1..Len(chunks) :
         /\ Len(chunks[k]) >= 1 /\ Len(chunks[k]) <= batchSize
         /\ k < Len(chunks) => Len(chunks[k]) = batchSize
    /\ Cardinality(inFlight) <= batchSize
    /\ Len(tasks) <= batchSize
    /\ \A k \in 1..Len(settled) : settled[k].pc \in {"fulfilled", "rejected"}
    /\ pc = "awaitChunk" =>
         /\ chunkIdx \in 1..Len(chunks)
         /\ idsOf(tasks) = chunks[chunkIdx]
         /\ idsOf(settled) = Flatten(SubSeq(chunks, 1, chunkIdx - 1))
    /\ pc = "returned" => idsOf(settled) = shipmentIds /\ tasks = <<>>

C14_Witness ==
  /\ pc = "awaitChunk"
  /\ Len(shipmentIds) = 3 /\ batchSize = 2
  /\ Len(chunks) = 2 /\ Len(chunks[1]) = 2 /\ Len(chunks[2]) = 1
  /\ chunkIdx = 2
  /\ Len(settled) = 2 /\ settled[2].pc = "rejected"
  /\ tasks[1].pc = "awaitContainers"

\* --------------------------------------------------------------------- C15
recordKey(r) == <<r.sglShipmentNo, r.containerNumber, r.customerName, r.shipperName>>

\* Keys of the records a fulfilled task owes, from what its lookups returned:
\* the placeholder, or one per fulfilled container in the shipment's order.
RECURSIVE containerKeys(_, _, _)
containerKeys(st, shipment, j) ==
  IF j > Len(shipment.containers) THEN <<>>
  ELSE (IF st.containers[j].pc = "fulfilled"
        THEN <<(<<shipment.shipmentId, shipment.containers[j],
                 shipment.customerName, shipment.shipperName>>)>>
        ELSE <<>>)
         \o containerKeys(st, shipment, j + 1)

taskKeys(st) ==
  IF st.pc # "fulfilled" THEN <<>>
  ELSE IF unresolved(st) THEN <<(<<st.shipmentId, "", <<>>, <<>> >>)>>
  ELSE containerKeys(st, shipmentOf(st), 1)

RECURSIVE inputOrderKeys(_, _)
inputOrderKeys(sts, n) ==
  IF n > Len(sts) THEN <<>> ELSE taskKeys(sts[n]) \o inputOrderKeys(sts, n + 1)

keysOf(recs) == [n \in 1..Len(recs) |-> recordKey(recs[n])]

\* C15: whatever order the tasks completed in, each fulfilled shipment task
\* holds its records in the container order its shipment lookup returned, with
\* the shipment-level fields of its own ID, and the returned records are those
\* of the tasks in input-ID order.
C15_RecordOrder ==
  /\ \A k \in 1..Len(allTasks) :
       /\ allTasks[k].shipmentId = shipmentIds[k]
       /\ allTasks[k].pc = "fulfilled" =>
            keysOf(allTasks[k].records) = taskKeys(allTasks[k])
  /\ keysOf(records) = inputOrderKeys(settled, 1)
  /\ pc = "returned" => idsOf(settled) = shipmentIds

\* The second task of a chunk and the second container of the first task have
\* completed before the first ones.
C15_CompletedOutOfOrder ==
  /\ pc = "awaitChunk" /\ Len(tasks) = 2
  /\ tasks[2].pc = "fulfilled" /\ Len(tasks[2].records) = 1
  /\ tasks[1].pc = "awaitContainers" /\ Len(tasks[1].containers) = 2
  /\ tasks[1].containers[2].pc = "fulfilled"
  /\ tasks[1].containers[1].pc = "awaitTracking"

C15_Witness ==
  /\ pc = "returned"
  /\ Len(settled) = 2 /\ batchSize = 2
  /\ settled[1].shipmentId # settled[2].shipmentId
  /\ Len(settled[1].containers) = 2
  /\ Len(records) = 3
  /\ records[1].containerNumber = ContainerCatalogue[shipmentIds[1]][1]
  /\ records[2].containerNumber = ContainerCatalogue[shipmentIds[1]][2]
  /\ records[3].sglShipmentNo = shipmentIds[2]

\* --------------------------------------------------------------------- C16
isSynthetic(e, type) == e.containerNumber = "unknown" /\ e.errorType = type

fulfilledContainers(st) ==
  {j \in 1..Len(st.containers) : st.containers[j].pc = "fulfilled"}

RECURSIVE errorCount(_, _)
errorCount(st, j) ==
  IF j > Len(st.containers) THEN 0
  ELSE (IF st.containers[j].pc = "fulfilled" THEN Len(st.containers[j].errors) ELSE 1)
         + errorCount(st, j + 1)

Occurrences(seq, x) == Cardinality({n \in 1..Len(seq) : seq[n] = x})

sameError(a, b) ==
  a.containerNumber = b.containerNumber /\ a.errorType = b.errorType
    /\ a.message = b.message

ErrorOccurrences(errs, x) == Cardinality({n \in 1..Len(errs) : sameError(errs[n], x)})

\* A resolved task that has collected its containers kept what every
\* fulfilled container task produced and added one synthetic error per
\* rejected one.
C16_OfShipment(st) ==
  (st.pc = "fulfilled" /\ resolved(st)) =>
    /\ Len(st.records) = Cardinality(fulfilledContainers(st))
    /\ Len(st.errors) = errorCount(st, 1)
    /\ CountIn(st.errors, LAMBDA e : isSynthetic(e, "TRACKING_FETCH_ERROR"))
         = rejectedContainers(st)
    /\ \A j \in fulfilledContainers(st) :
         LET ct == st.containers[j] IN
           /\ Occurrences(st.records, ct.record[1]) = 1
           /\ \A e \in 1..Len(ct.errors) :
                ErrorOccurrences(st.errors, ct.errors[e])
                  = ErrorOccurrences(ct.errors, ct.errors[e])

RECURSIVE lengthsOf(_, _)
lengthsOf(sts, field) ==
  IF sts = <<>> THEN 0
  ELSE (IF Head(sts).pc = "fulfilled" THEN Len(Head(sts)[field])
        ELSE IF field = "errors" THEN 1 ELSE 0)
         + lengthsOf(Tail(sts), field)

\* C16: a rejected shipment task adds exactly one synthetic SHIPMENT_FETCH_ERROR
\* keyed "unknown" and a rejected container task exactly one synthetic
\* TRACKING_FETCH_ERROR keyed "unknown"; the records and errors of every other
\* shipment task of the same and of later chunks, and of every other container
\* of the shipment, reach the result as their own tasks produced them.
C16_SiblingIsolation ==
  /\ \A k \in 1..Len(allTasks) : C16_OfShipment(allTasks[k])
  /\ Len(records) = lengthsOf(settled, "records")
  /\ Len(errors) = lengthsOf(settled, "errors")
  /\ CountIn(errors, LAMBDA e : isSynthetic(e, "SHIPMENT_FETCH_ERROR"))
       = CountIn(settled, LAMBDA st : st.pc = "rejected")
  /\ \A k \in 1..Len(settled) :
       settled[k].pc = "fulfilled" =>
         /\ \A n \in 1..Len(settled[k].records) :
              Occurrences(records, settled[k].records[n]) >= 1
         /\ \A n \in 1..Len(settled[k].errors) :
              ErrorOccurrences(errors, settled[k].errors[n]) >= 1

C16_Witness ==
  /\ pc = "returned"
  /\ Len(settled) = 2
  /\ settled[1].pc = "rejected"
  /\ settled[2].pc = "fulfilled" /\ Len(settled[2].containers) = 2
  /\ settled[2].containers[1].pc = "rejected"
  /\ settled[2].containers[2].lookup = "failure"
  /\ Len(records) = 1 /\ Len(errors) = 3

\* The isolation of C16 across chunks: the task of a later chunk is untouched
\* by a rejected task of an earlier one.
C16_WitnessLaterChunk ==
  /\ pc = "returned" /\ batchSize = 1 /\ Len(settled) = 2
  /\ settled[1].pc = "rejected"
  /\ settled[2].pc = "fulfilled" /\ Len(settled[2].records) = 1 /\ Len(records) = 1

\* ------------------------------------------- claims about retryWithBackoff
eventsOf(kind) == {n \in 1..Len(retry.events) : retry.events[n] = kind}

invocations == Cardinality(eventsOf("call"))

lastEvent == retry.events[Len(retry.events)]

raisedExhausted ==
  retry.pc = "threw" /\ retry.outcome[1].name = "RetryExhaustedError"

failedRetryably ==
  retry.lastError # None /\ retry.lastError[1].message \in retry.retryable

failedNonRetryably ==
  retry.lastError # None /\ retry.lastError[1].message \notin retry.retryable

\* --------------------------------------------------------------------- C17
\* C17: retryWithBackoff invokes the operation at most maxRetries + 1 times; it
\* returns the response of the invocation that succeeded, which is its last
\* one; when maxRetries + 1 invocations have all failed retryably it raises
\* RetryExhaustedError with attempts = maxRetries + 1 and as lastError the
\* error of the last invocation.
C17_RetryAttemptBound ==
  /\ invocations <= retry.options.maxRetries + 1
  /\ retry.pc \in {"awaitOperation", "awaitSleep"} => invocations = retry.attempt + 1
  /\ retry.pc = "returned" =>
       /\ retry.outcome = Some(<<"response", invocations>>)
       /\ lastEvent = "call"
  /\ raisedExhausted =>
       /\ retry.outcome[1].attempts = retry.options.maxRetries + 1
       /\ invocations = retry.options.maxRetries + 1
       /\ invocations >= 1 =>
            /\ failedRetryably
            /\ retry.outcome[1].lastError = Some(asError(retry.thrown[1]))
  /\ (retry.pc = "threw" /\ failedRetryably) => raisedExhausted
  /\ (failedRetryably /\ invocations = retry.options.maxRetries + 1
        /\ retry.pc \notin {"awaitOperation", "returned"}) => raisedExhausted

C17_Witness ==
  /\ raisedExhausted
  /\ retry.options.maxRetries = 3 /\ invocations = 4
  /\ retry.outcome[1].attempts = 4
  /\ retry.outcome[1].lastError[1].message = "HTTP 500"

\* The other outcome of C17: the second invocation succeeds and is the last.
C17_WitnessSuccess ==
  /\ retry.pc = "returned" /\ retry.options.maxRetries = 3
  /\ retry.outcome = Some(<<"response", 2>>)

\* --------------------------------------------------------------------- C18
\* C18: once an invocation fails with an error isRetryable answers false for,
\* retryWithBackoff has raised that same error (an Error made of the raised
\* value when it was not an Error), which is not a RetryExhaustedError, with
\* no delay and no invocation after it, whatever number of retries remains.
C18_NonRetryableStops ==
  failedNonRetryably =>
    /\ retry.pc = "threw"
    /\ retry.outcome = retry.lastError
    /\ retry.outcome[1].name # "RetryExhaustedError"
    /\ retry.thrown[1].isError => retry.outcome[1] = retry.thrown[1]
    /\ ~retry.thrown[1].isError =>
         retry.outcome[1] = ErrorObject(retry.thrown[1].message, "retryWithBackoff")
    /\ lastEvent = "call" /\ retry.delay = None
    /\ invocations = retry.attempt + 1
    /\ Cardinality(eventsOf("sleep")) = retry.attempt
    /\ Cardinality(eventsOf("wake")) = retry.attempt

C18_Witness ==
  /\ retry.pc = "threw"
  /\ retry.options.maxRetries = MaxRetries
  /\ invocations = 2
  /\ retry.outcome[1].name = "Error" /\ retry.outcome[1].message = "HTTP 400"

\* --------------------------------------------------------------------- C19
\* C19: every invocation but the first directly follows one completed delay,
\* which was started directly after the invocation before it; nothing is
\* started after the last attempt, so a run that raises RetryExhaustedError
\* after its (maxRetries + 1)-th attempt has started and completed exactly
\* maxRetries delays.
C19_BackoffOrdering ==
  /\ retry.events # <<>> => retry.events[1] = "call"
  /\ \A n \in 1..(Len(retry.events) - 1) :
       /\ retry.events[n] = "call" => retry.events[n + 1] = "sleep"
       /\ retry.events[n] = "sleep" => retry.events[n + 1] = "wake"
       /\ retry.events[n] = "wake" => retry.events[n + 1] = "call"
  /\ retry.pc = "awaitSleep" <=> (retry.events # <<>> /\ lastEvent = "sleep")
  /\ retry.pc = "awaitOperation" => lastEvent = "call"
  /\ (retry.pc \in {"returned", "threw"} /\ retry.events # <<>>) => lastEvent = "call"
  /\ Cardinality(eventsOf("sleep")) <= Max(retry.options.maxRetries, 0)
  /\ (raisedExhausted /\ invocations >= 1) =>
       /\ Cardinality(eventsOf("sleep")) = retry.options.maxRetries
       /\ Cardinality(eventsOf("wake")) = retry.options.maxRetries

C19_Witness ==
  /\ raisedExhausted
  /\ retry.options.maxRetries = 2
  /\ retry.events = <<"call", "sleep", "wake", "call", "sleep", "wake", "call">>

\* --------------------------------------------------------------------- C20
cappedDelayOf(n, options) ==
  IF options.baseDelay * Pow2(n) < options.maxDelay
  THEN options.baseDelay * Pow2(n) ELSE options.maxDelay

\* C20: the delay d computed for attempt index n with jitterFactor in [0,1]
\* satisfies capped * (1 - jitterFactor) <= d <= capped * (1 + jitterFactor)
\* and d >= 0, where capped = min(baseDelay * 2^n, maxDelay); for
\* baseDelay = 1000, maxDelay = 10000, jitterFactor = 0.1 that is
\* 900 <= d <= 1100 at n = 0 and d <= 11000 at n = 5.
C20_DelayBounds ==
  retry.pc = "awaitSleep" =>
    LET n == retry.attempt
        o == retry.options
        d == retry.delay[1]
        capped == cappedDelayOf(n, o)
    IN /\ o.jitterFactor \in 0..JitterScale
       /\ capped * (JitterScale - o.jitterFactor) * RandomScale <= d
       /\ d <= capped * (JitterScale + o.jitterFactor) * RandomScale
       /\ d >= 0
       /\ (o.baseDelay = 1000 /\ o.maxDelay = 10000 /\ o.jitterFactor = 10) =>
            /\ n = 0 => (900 * DelayScale <= d /\ d <= 1100 * DelayScale)
            /\ n = 5 => d <= 11000 * DelayScale

C20_Witness ==
  /\ retry.pc = "awaitSleep" /\ retry.attempt = 5
  /\ retry.options.baseDelay = 1000 /\ retry.options.maxDelay = 10000
  /\ retry.options.jitterFactor = 10
  /\ retry.delay[1] > 10000 * DelayScale

\* The lower end of C20 at n = 0: the jitter takes the delay below its base.
C20_WitnessFirstAttempt ==
  /\ retry.pc = "awaitSleep" /\ retry.attempt = 0
  /\ retry.options.baseDelay = 1000 /\ retry.options.maxDelay = 10000
  /\ retry.options.jitterFactor = 10
  /\ retry.delay[1] = 900 * DelayScale

\* --------------------------------------------------------------------- C21
getWeatherCalled == provider.pc \notin {"none", "idle"}

\* Calls of fetch() made so far by the provider.
fetches == IF retry.pc = "none" THEN 0 ELSE invocations

\* The calendar date of an instant in the time zone of the process.
calendarDate(instant, tz) == (instant + tz) \div 24

statusOf(settlement) == settlement.value.status

\* C21: when the calendar date of the requested timestamp is later than
\* today's, getWeather returns NO_DATA_AVAILABLE and calls fetch() not once;
\* when it is not later (today at a later time of day included) the request
\* is not short-circuited: it goes to the retried fetch, which issues a fetch
\* whenever the policy allows an attempt.
C21_FutureDateShortCircuit ==
  getWeatherCalled =>
    LET requested == calendarDate(provider.date[1], provider.clock[1].tz)
        today == calendarDate(provider.clock[1].now, provider.clock[1].tz)
    IN /\ requested > today =>
            /\ retry.pc = "none"
            /\ fetches = 0
            /\ provider.pc = "returned"
            /\ statusOf(provider.outcome[1]) = "NO_DATA_AVAILABLE"
       /\ requested <= today =>
            /\ retry.pc # "none"
            /\ retry.options.maxRetries >= 0 => fetches >= 1

\* A future-dated arrival was answered without a fetch and is on the record.
C21_Witness ==
  /\ provider.pc = "returned"
  /\ calendarDate(provider.date[1], provider.clock[1].tz)
       > calendarDate(provider.clock[1].now, provider.clock[1].tz)
  /\ pc = "returned"
  /\ \E k \in 1..Len(records) :
       records[k].weatherFetchStatus = Some("NO_DATA_AVAILABLE")

\* An arrival later today was fetched and gave weather data.
C21_WitnessLaterToday ==
  /\ provider.pc = "returned"
  /\ provider.date[1] > provider.clock[1].now
  /\ calendarDate(provider.date[1], provider.clock[1].tz)
       = calendarDate(provider.clock[1].now, provider.clock[1].tz)
  /\ fetches = 1
  /\ statusOf(provider.outcome[1]) = "SUCCESS"

\* --------------------------------------------------------------------- C22
\* The error of the last failed fetch is an HTTP 4xx other than 429.
isClientError(error) ==
  /\ error.statusCode # None
  /\ error.statusCode[1] >= 400 /\ error.statusCode[1] < 500
  /\ error.statusCode[1] # 429

\* ... is a network-class error or an HTTP 429 or 5xx.
isTransientError(error) ==
  \/ error.statusCode = None /\ isNetworkError(error)
  \/ /\ error.statusCode # None
     /\ error.statusCode[1] = 429 \/ error.statusCode[1] \in 500..599

\* C22: a fetch that failed with a network-class error or with HTTP 429 or
\* 5xx is retried while fetches remain (at most maxRetries + 1 in all), so the
\* call gives up on such an error only as exhausted; a fetch that got an HTTP
\* 4xx other than 429 is the last one, the error is not retried and getWeather
\* returns FATAL_ERROR.
C22_WeatherRetryability ==
  (getWeatherCalled /\ retry.pc # "none") =>
    /\ fetches <= Max(retry.options.maxRetries + 1, 0)
    /\ retry.lastError # None =>
         LET error == retry.lastError[1] IN
           /\ (isTransientError(error) /\ retry.pc = "threw") =>
                /\ raisedExhausted
                /\ fetches = retry.options.maxRetries + 1
           /\ isClientError(error) =>
                /\ retry.pc = "threw"
                /\ retry.outcome = retry.lastError
                /\ lastEvent = "call"
                /\ provider.pc # "threw"
                /\ provider.pc = "returned" =>
                     statusOf(provider.outcome[1]) = "FATAL_ERROR"

\* What C22 says of a 4xx happens for HTTP 400: one fetch, FATAL_ERROR.
C22_BadRequestNotRetried ==
  /\ provider.pc = "returned"
  /\ retry.pc = "threw"
  /\ retry.lastError[1].message = "HTTP 400: Bad Request"
  /\ fetches = 1
  /\ statusOf(provider.outcome[1]) = "FATAL_ERROR"

\* HTTP 408 is fetched again until the policy is exhausted.
C22_RequestTimeoutRetried ==
  /\ provider.pc = "returned"
  /\ raisedExhausted
  /\ retry.lastError[1].message = "HTTP 408: Request Timeout"
  /\ fetches = 3
  /\ statusOf(provider.outcome[1]) = "RETRY_EXHAUSTED"

\* --------------------------------------------------------------------- C23
\* The external call failed: retries exhausted, or an error not retried (a
\* response that is no JSON, does not parse or fails the schema included).
externalCallFailed == retry.pc = "threw"

\* C23: analyzeDelay of the external-model-backed classifier never raises;
\* when the external call failed, whatever the failure, it returns what the
\* keyword classifier returns for the same reason text, and when the call
\* succeeded it returns the parsed response.
C23_ClassifierFallback ==
  /\ classifier.pc # "threw"
  /\ classifier.pc = "returned" =>
       /\ classifier.outcome[1].status = "fulfilled"
       /\ externalCallFailed =>
            classifier.outcome[1].value = keywordAnalyzeDelay(classifier.delayReason)
       /\ ~externalCallFailed => classifier.outcome[1].value = retry.outcome[1]

\* The fallback answered after the retries were exhausted, with a verdict
\* that names two keywords.
C23_Witness ==
  /\ classifier.pc = "returned"
  /\ raisedExhausted
  /\ invocations = 3
  /\ classifier.delayReason = "Thunderstorm at port"
  /\ classifier.outcome[1].value =
       DelayAnalysisResult(TRUE, <<"Matched weather keywords",
                                   <<"storm", "thunderstorm">>>>, 70)

\* The fallback answered after a response that failed the schema.
C23_WitnessInvalidResponse ==
  /\ classifier.pc = "returned"
  /\ retry.pc = "threw"
  /\ retry.lastError # None
  /\ retry.lastError[1].message = "Failed to parse OpenAI response"
  /\ invocations = 1
  /\ classifier.delayReason = "strike"
  /\ classifier.outcome[1].value.confidence = 90

\* --------------------------------------------------------------------- C24
\* Lookups whose ensureCacheLoaded is reading the file.
readsInFlight == {k \in 1..Len(adapter.lookups) : adapter.lookups[k].pc = "awaitRead"}

failedLoads == {n \in 1..Len(adapter.loads) : ~adapter.loads[n]}

succeededLoads == {n \in 1..Len(adapter.loads) : adapter.loads[n]}

\* C24: however many lookups reach the adapter before its cache is there, one
\* read of the file is in flight at a time and the file is read once (once
\* more after each load that failed): the lookups that come during a load
\* share it.
C24_SingleCacheLoad ==
  adapter.pc = "constructed" =>
    /\ Cardinality(readsInFlight) <= 1
    /\ adapter.reads <= 1 + Cardinality(failedLoads)

\* Three lookups came before the cache was there; the file was read three
\* times, each load succeeded.
C24_ThreeReads ==
  /\ adapter.pc = "constructed"
  /\ adapter.reads = 3
  /\ adapter.loads = <<TRUE, TRUE, TRUE>>
  /\ \A k \in 1..3 : adapter.lookups[k].pc = "returned"

\* --------------------------------------------------------------------- C25
answered(lookup) ==
  lookup.pc = "returned" /\ lookup.result[1] \in {"found", "notfound"}

\* C25: while no load has succeeded the adapter is not loaded (its cache is
\* null), so a lookup repeats the load or returns failure: no lookup answers
\* found or not-found unless a load succeeded.
C25_MemoizeOnSuccessOnly ==
  (adapter.pc = "constructed" /\ succeededLoads = {}) =>
    /\ adapter.cache = None
    /\ \A k \in 1..Len(adapter.lookups) : ~answered(adapter.lookups[k])

\* A load failed while the map was built, and a later lookup answered
\* found from what it had built.
C25_FoundAfterFailedLoad ==
  /\ adapter.pc = "constructed"
  /\ adapter.reads = 1
  /\ adapter.loads = <<FALSE>>
  /\ Len(adapter.lookups) = 2
  /\ adapter.lookups[1].result = Some("failure")
  /\ adapter.lookups[2].result = Some("found")

\* --------------------------------------------------------------------- C26
\* The records and the timestamp the program hands out after enrichment.
enrichedRecords == enriched[1].records

matches(error, record) ==
  \/ error.containerNumber = record.sglShipmentNo
  \/ error.containerNumber = record.containerNumber

\* The texts of the errors that match the record, in the order of errs, with
\* "; " between them.
RECURSIVE joinedMatching(_, _)
joinedMatching(errs, record) ==
  IF errs = <<>> THEN <<>>
  ELSE LET error == errs[Len(errs)]
           before == joinedMatching(SubSeq(errs, 1, Len(errs) - 1), record)
       IN IF ~matches(error, record) THEN before
          ELSE IF before = <<>> THEN errorText(error)
          ELSE before \o <<"; ">> \o errorText(error)

\* C26: the error field of every enriched record is the "; "-joined texts, in
\* errors-list order, of all errors whose key equals the record's shipment ID
\* or its container number, and is absent when no error matches.
C26_ErrorEnrichment ==
  enriched # None =>
    \A k \in 1..Len(enrichedRecords) :
      LET expected == joinedMatching(errors, enrichedRecords[k]) IN
        enrichedRecords[k].error =
          IF expected = <<>> THEN None ELSE Some(expected)

\* What C26 says happens when only the container's key has errors: both
\* texts are attached, in order.
C26_ContainerErrorsJoined ==
  /\ enriched # None
  /\ \E k \in 1..Len(enrichedRecords) :
       /\ Len(joinedMatching(errors, enrichedRecords[k])) = 7
       /\ enrichedRecords[k].error = Some(joinedMatching(errors, enrichedRecords[k]))

\* The shipment ID of a record has an error of its own (the ID is in the
\* input twice and one lookup found nothing): the container's error is not
\* attached.
C26_ContainerErrorDropped ==
  /\ enriched # None
  /\ \E k \in 1..Len(enrichedRecords) :
       /\ enrichedRecords[k].containerNumber # ""
       /\ errorMapGet(errors, enrichedRecords[k].containerNumber) # None
       /\ enrichedRecords[k].error = errorMapGet(errors, enrichedRecords[k].sglShipmentNo)
       /\ Len(enrichedRecords[k].error[1]) = 3

\* --------------------------------------------------------------------- C27
\* The fields of a record other than error and lastUpdated.
emittedFields(r) ==
  <<r.sglShipmentNo, r.customerName, r.shipperName, r.containerNumber, r.scac,
    r.initialCarrierETA, r.actualArrivalAt, r.delayReasons, r.temperature,
    r.windSpeed, r.weatherFetchStatus>>

\* C27 as stated: enrichment keeps the number and order of the records and
\* every field but error, lastUpdated included, as the orchestrator emitted
\* it.
C27_EnrichmentFrameOriginal ==
  enriched # None =>
    /\ Len(enrichedRecords) = Len(records)
    /\ \A k \in 1..Len(records) :
         /\ emittedFields(enrichedRecords[k]) = emittedFields(records[k])
         /\ enrichedRecords[k].lastUpdated = records[k].lastUpdated

\* C27, amended: enrichment changes nothing of a record except its error
\* field and lastUpdated, which becomes the timestamp of the enrichment;
\* every other field has the value the orchestrator emitted, and the number
\* and order of the records are unchanged.
C27_EnrichmentFrame ==
  enriched # None =>
    /\ Len(enrichedRecords) = Len(records)
    /\ \A k \in 1..Len(records) :
         /\ emittedFields(enrichedRecords[k]) = emittedFields(records[k])
         /\ enrichedRecords[k].lastUpdated = enriched[1].timestamp
         /\ DOMAIN enrichedRecords[k] = DOMAIN records[k] \cup {"error"}

\* Two records were enriched after the millisecond they were emitted in; one
\* carries weather data and an error.
C27_Witness ==
  /\ enriched # None
  /\ Len(records) = 2
  /\ enriched[1].timestamp # emissionInstant
  /\ \E k \in 1..2 :
       /\ records[k].lastUpdated = emissionInstant
       /\ enrichedRecords[k].lastUpdated # emissionInstant
       /\ enrichedRecords[k].weatherFetchStatus = Some("SUCCESS")
       /\ enrichedRecords[k].temperature # None
       /\ enrichedRecords[k].error # None

\* --------------------------------------------------------------------- C28
\* The text of the error is one of the pieces of the string.
RECURSIVE holdsText(_, _)
holdsText(string, error) ==
  IF Len(string) < 3 THEN FALSE
  ELSE \/ /\ string[1] = error.errorType
          /\ string[3] = error.message
       \/ Len(string) > 4 /\ holdsText(SubSeq(string, 5, Len(string)), error)

reflectedOn(error, record) ==
  /\ matches(error, record)
  /\ record.error # None
  /\ holdsText(record.error[1], error)

\* C28: after analysis and enrichment every entry of errors is in the error
\* field of at least one of the records returned.
C28_ErrorsOnRecords ==
  enriched # None =>
    \A e \in 1..Len(errors) :
      \E k \in 1..Len(enrichedRecords) : reflectedOn(errors[e], enrichedRecords[k])

\* What C28 says happens when no task rejected and no ID has an error of its
\* own next to a container's: two errors, each on a record.
C28_EveryErrorReflected ==
  /\ enriched # None
  /\ Len(errors) = 2
  /\ \A e \in 1..Len(errors) : errors[e].containerNumber # "unknown"
  /\ \A e \in 1..Len(errors) :
       \E k \in 1..Len(enrichedRecords) : reflectedOn(errors[e], enrichedRecords[k])

\* --------------------------------------------------------------------- C29
\* getWeather returned a SUCCESS result.
weatherSucceeded ==
  /\ provider.pc = "returned"
  /\ provider.outcome[1].value.status = "SUCCESS"

\* tenths is the value, in tenths, nearest to numerator / denominator (the
\* half goes up, as Math.round does).
nearestTenth(tenths, numerator, denominator) ==
  /\ 2 * denominator * tenths - denominator <= 20 * numerator
  /\ 20 * numerator < 2 * denominator * tenths + denominator

\* The hour of the response the provider read its values from.
sourceIndex == findIndex(retry.outcome[1].hourly[1].time, getUTCHours(provider.date[1]))

\* C29: the weather source returns the source wind speed (km/h) divided by
\* 3.6 and the source temperature, each rounded to one decimal place (10.8
\* km/h gives 3.0 m/s, 14.4 km/h gives 4.0 m/s); the orchestrator copies
\* temperature and windSpeed of a SUCCESS outcome onto the record unchanged,
\* and a record has temperature or windSpeed only when its weatherFetchStatus
\* is SUCCESS.
C29_WindSpeedConversion ==
  /\ windSpeedMs(108) = 30
  /\ windSpeedMs(144) = 40
  /\ weatherSucceeded =>
       /\ retry.pc = "returned"
       /\ LET hourly == retry.outcome[1].hourly[1]
              data == provider.outcome[1].value.data[1]
          IN \* source: hundredths of a degree, tenths of km/h; result: tenths
             /\ nearestTenth(data.temperature[1],
                             hourly.temperature_2m[1][sourceIndex][1], 100)
             /\ nearestTenth(data.windSpeed[1],
                             hourly.wind_speed_10m[1][sourceIndex][1], 36)
  /\ \A k \in 1..Len(records) :
       /\ records[k].weatherFetchStatus = Some("SUCCESS") =>
            /\ weatherSucceeded
            /\ records[k].temperature = provider.outcome[1].value.data[1].temperature
            /\ records[k].windSpeed = provider.outcome[1].value.data[1].windSpeed
       /\ (records[k].temperature # None \/ records[k].windSpeed # None) =>
            records[k].weatherFetchStatus = Some("SUCCESS")

\* The source gave -12.34 degrees and 14.4 km/h for the hour of arrival; the
\* record holds -12.3 degrees and 4.0 m/s.
C29_Witness ==
  /\ pc = "returned"
  /\ weatherSucceeded
  /\ retry.outcome[1].hourly[1].wind_speed_10m[1][sourceIndex] = Some(144)
  /\ retry.outcome[1].hourly[1].temperature_2m[1][sourceIndex] = Some(-1234)
  /\ Len(records) = 1
  /\ records[1].weatherFetchStatus = Some("SUCCESS")
  /\ records[1].windSpeed = Some(40)
  /\ records[1].temperature = Some(-123)

\* The provider ended in RETRY_EXHAUSTED: the record has the status and
\* neither value.
C29_WitnessNoValues ==
  /\ pc = "returned"
  /\ Len(records) = 1
  /\ records[1].weatherFetchStatus = Some("RETRY_EXHAUSTED")
  /\ records[1].temperature = None
  /\ records[1].windSpeed = None

\* --------------------------------------------------------------------- C30
\* A record of the shipment is among the records the page shows.
displayed(id, home) ==
  /\ home.result # None
  /\ \E k \in 1..Len(home.result[1].records) :
       home.result[1].records[k].sglShipmentNo = id

\* An inline add ends in this step.
addEnds == page.add.pc # "idle" /\ page'.add.pc = "idle"

\* C30: an inline add of a shipment ID that is among the displayed records
\* adds no record and appends no error, so no shipment ID is added twice.
C30_DuplicateDetection ==
  [][(addEnds /\ displayed(page.add.ids[1], page)) =>
       /\ page'.result # None
       /\ page'.result[1].records = page.result[1].records
       /\ page'.result[1].errors = page.result[1].errors]_vars

\* S2 was analysed and then added inline: the page shows two records of S2
\* and holds its SHIPMENT_NOT_FOUND error twice.
C30_AddedTwice ==
  /\ page.pc = "mounted"
  /\ page.result # None
  /\ page.add.pc = "idle"
  /\ Len(page.result[1].records) = 2
  /\ page.result[1].records[1].sglShipmentNo = "S2"
  /\ page.result[1].records[2].sglShipmentNo = "S2"
  /\ Len(page.result[1].errors) = 2

\* --------------------------------------------------------------------- C31
\* What identifies an error in the list: its key, its type and, for a
\* low-confidence error, the delay reason its message quotes.
errorSignature(e) ==
  <<e.containerNumber, e.errorType,
    IF e.errorType = "DELAY_ANALYSIS_LOW_CONFIDENCE" THEN e.message[3] ELSE "">>

signaturesOf(errs) == [n \in 1..Len(errs) |-> errorSignature(errs[n])]

\* The low-confidence errors a container owes for its reasons idx.., in
\* delay-reason order.
RECURSIVE lowConfidenceSignatures(_, _)
lowConfidenceSignatures(ct, idx) ==
  IF idx > reasonsOf(ct) THEN <<>>
  ELSE (IF \E g \in 1..Len(ct.gate) :
              ct.gate[g].reason = idx /\ ct.gate[g].outcome = "discarded"
        THEN <<(<<ct.containerNumber, "DELAY_ANALYSIS_LOW_CONFIDENCE",
                 ct.tracking[1].delayReasons[idx]>>)>>
        ELSE <<>>)
         \o lowConfidenceSignatures(ct, idx + 1)

\* The errors a settled container task owes: tracking error, low-confidence
\* errors, weather error; one synthetic error when it rejected.
containerSignatures(ct) ==
  IF ct.pc = "rejected" THEN <<(<<"unknown", "TRACKING_FETCH_ERROR", "">>)>>
  ELSE (IF ct.lookup = "failure"
        THEN <<(<<ct.containerNumber, "TRACKING_FETCH_ERROR", "">>)>> ELSE <<>>)
         \o lowConfidenceSignatures(ct, 1)
         \o (IF ct.weather = "threw"
             THEN <<(<<ct.containerNumber, "WEATHER_FETCH_ERROR", "">>)>> ELSE <<>>)

RECURSIVE containerOrderSignatures(_, _)
containerOrderSignatures(st, j) ==
  IF j > Len(st.containers) THEN <<>>
  ELSE containerSignatures(st.containers[j]) \o containerOrderSignatures(st, j + 1)

\* The errors a settled shipment task owes.
taskSignatures(st) ==
  IF st.pc = "rejected" THEN <<(<<"unknown", "SHIPMENT_FETCH_ERROR", "">>)>>
  ELSE IF unresolved(st)
  THEN <<(<<st.shipmentId,
           IF st.lookup[1].value.success THEN "SHIPMENT_NOT_FOUND"
           ELSE "SHIPMENT_FETCH_ERROR", "">>)>>
  ELSE containerOrderSignatures(st, 1)

RECURSIVE submissionOrderSignatures(_, _)
submissionOrderSignatures(sts, n) ==
  IF n > Len(sts) THEN <<>>
  ELSE taskSignatures(sts[n]) \o submissionOrderSignatures(sts, n + 1)

\* C31: whatever order the tasks completed in, the errors list is the
\* concatenation, in chunk order and then submission order of the shipment
\* tasks, of each task's errors; a resolved shipment's errors follow its
\* container order, and those of one container are its tracking error, its
\* low-confidence errors in delay-reason order, then its weather error;
\* nothing is dropped as a duplicate or re-sorted.
C31_ErrorOrder ==
  /\ idsOf(allTasks) = SubSeq(shipmentIds, 1, Len(allTasks))
  /\ \A k \in 1..Len(allTasks) :
       allTasks[k].pc = "fulfilled" =>
         signaturesOf(allTasks[k].errors) = taskSignatures(allTasks[k])
  /\ signaturesOf(errors) = submissionOrderSignatures(settled, 1)

\* The second task of the chunk has returned its error while the first one,
\* whose second container is done before its first, is still running.
C31_CompletedOutOfOrder ==
  /\ pc = "awaitChunk" /\ Len(tasks) = 2
  /\ tasks[2].pc = "fulfilled" /\ Len(tasks[2].errors) = 1
  /\ tasks[1].pc = "awaitContainers" /\ Len(tasks[1].containers) = 2
  /\ tasks[1].containers[2].pc = "fulfilled"
  /\ Len(tasks[1].containers[2].errors) = 1
  /\ tasks[1].containers[1].pc = "awaitClassifier"

\* One chunk of two shipments returned: the first container of S1 has a
\* low-confidence error for its first reason and then a weather error, the
\* second a tracking error, and the error of S2 comes last.
C31_Witness ==
  /\ pc = "returned" /\ batchSize = 2 /\ Len(settled) = 2
  /\ Len(errors) = 4
  /\ errors[1].errorType = "DELAY_ANALYSIS_LOW_CONFIDENCE"
  /\ errors[1].containerNumber = ContainerCatalogue["S1"][1]
  /\ errors[2].errorType = "WEATHER_FETCH_ERROR"
  /\ errors[2].containerNumber = ContainerCatalogue["S1"][1]
  /\ errors[3].errorType = "TRACKING_FETCH_ERROR"
  /\ errors[3].containerNumber = ContainerCatalogue["S1"][2]
  /\ errors[4].errorType = "SHIPMENT_NOT_FOUND"
  /\ errors[4].containerNumber = "S2"

\* Two tasks rejected for the same reason: both synthetic errors are kept.
C31_WitnessNotDeduplicated ==
  /\ pc = "returned"
  /\ Len(errors) = 2
  /\ isSynthetic(errors[1], "SHIPMENT_FETCH_ERROR")
  /\ isSynthetic(errors[2], "SHIPMENT_FETCH_ERROR")

\* --------------------------------------------------------------------- C32
\* A processShipment task makes its getShipmentById call when it is launched
\* and a processContainer task its getTrackingByContainer call: the calls
\* made so far are the tasks there are.
shipmentCalls == idsOf(allTasks)

trackingCalls(st) == [j \in 1..Len(st.containers) |-> st.containers[j].containerNumber]

\* C32: the shipment source is called exactly once per occurrence of an ID in
\* the input (never for an empty list); the tracking source is called exactly
\* once per container of each resolved shipment and never for a shipment that
\* was not resolved.
C32_LookupCallCounts ==
  /\ shipmentCalls = SubSeq(shipmentIds, 1, Len(allTasks))
  /\ pc = "returned" => shipmentCalls = shipmentIds
  /\ \A k \in 1..Len(allTasks) :
       LET st == allTasks[k] IN
         /\ resolved(st) => trackingCalls(st) = shipmentOf(st).containers
         /\ ~resolved(st) => trackingCalls(st) = <<>>

\* The same ID twice: the first lookup gave two containers, the second found
\* nothing; two shipment calls, two tracking calls.
C32_Witness ==
  /\ pc = "returned"
  /\ Len(shipmentIds) = 2 /\ shipmentIds[1] = shipmentIds[2]
  /\ Len(shipmentCalls) = 2
  /\ resolved(settled[1]) /\ Len(trackingCalls(settled[1])) = 2
  /\ unresolved(settled[2]) /\ trackingCalls(settled[2]) = <<>>

\* The empty list: analyzeShipments returned and no call was made.
C32_WitnessEmpty ==
  /\ pc = "returned" /\ shipmentIds = <<>> /\ shipmentCalls = <<>>

\* --------------------------------------------------------------------- C33
\* analyzeShipments starts the tasks of a chunk in this step.
launchesChunk == pc' = "awaitChunk" /\ (pc = "idle" \/ chunkIdx' # chunkIdx)

\* The i-th task of the chunk starts its container tasks in this step.
fansOut(i) ==
  /\ i <= Len(tasks')
  /\ tasks[i].pc = "awaitShipment"
  /\ tasks'[i].pc = "awaitContainers"

\* C33: when a chunk is started its shipment lookups are all issued, in
\* input-ID order, before any of them has completed, and when a shipment is
\* resolved its tracking lookups are all issued, in container order, before
\* any of them has completed: the i-th call of the fan-out is that of the
\* i-th ID / container.
C33_CallIssueOrder ==
  [][/\ launchesChunk =>
         /\ idsOf(tasks') = chunks'[chunkIdx']
         /\ \A i \in 1..Len(tasks') :
              tasks'[i].pc = "awaitShipment" /\ tasks'[i].lookup = None
     /\ \A i \in 1..Len(tasks) :
         fansOut(i) =>
           /\ trackingCalls(tasks'[i]) = shipmentOf(tasks'[i]).containers
           /\ \A j \in 1..Len(tasks'[i].containers) :
                /\ tasks'[i].containers[j].pc = "awaitTracking"
                /\ tasks'[i].containers[j].lookup = "pending"]_vars

\* Two IDs in one chunk: the first shipment has just been resolved and both
\* its tracking lookups are pending, in container order, while the lookup of
\* the second ID is still pending.
C33_Witness ==
  /\ pc = "awaitChunk" /\ Len(tasks) = 2
  /\ idsOf(tasks) = shipmentIds
  /\ tasks[1].shipmentId # tasks[2].shipmentId
  /\ tasks[1].pc = "awaitContainers"
  /\ trackingCalls(tasks[1]) = SubSeq(ContainerCatalogue[tasks[1].shipmentId], 1, 2)
  /\ tasks[1].containers[1].pc = "awaitTracking"
  /\ tasks[1].containers[2].pc = "awaitTracking"
  /\ tasks[2].pc = "awaitShipment"

\* --------------------------------------------------------------------- C34
containsWeatherKeyword(text) ==
  \E k \in 1..Len(weatherKeywords) : reasonIncludes(text, weatherKeywords[k])

\* The container does not and did not wait for the weather source.
noWeatherFetch(ct) ==
  /\ ct.weatherCalls = 0
  /\ ct.pc # "awaitWeather"
  /\ ct.record # None => ct.record[1].weatherFetchStatus = None

C34_OfContainer(st, ct) ==
  /\ noWeatherFetch(ct)
  /\ \A n \in 1..Len(ct.gate) :
       LET g == ct.gate[n] IN
         IF containsWeatherKeyword(reasonText(ct, g.reason))
         THEN /\ g.calls = 2 /\ callsFor(ct, g.reason) = 2
              /\ g.outcome = "discarded"
              /\ g.analysis[1].confidence = 70 /\ ~g.firstMet
              /\ Cardinality(lowConfidenceErrorsFor(ct, g.reason)) = 1
         ELSE /\ g.calls = 1 /\ callsFor(ct, g.reason) = 1
              /\ g.outcome = "accepted"
              /\ g.analysis[1].confidence = 90
              /\ ~g.analysis[1].isWeatherRelated
              /\ lowConfidenceErrorsFor(ct, g.reason) = {}
  /\ Cardinality(errorsOfType(ct.errors, "DELAY_ANALYSIS_LOW_CONFIDENCE"))
       = Cardinality(discarded(ct))

\* C34: when the keyword classifier gives the verdicts, a delay reason with
\* a weather keyword gets confidence 0.7 on both attempts: it is classified
\* exactly twice, discarded with one DELAY_ANALYSIS_LOW_CONFIDENCE error and
\* never leads to a weather fetch; a reason without a keyword gets 0.9 and is
\* accepted as not weather-related after exactly one call.
C34_HeuristicAgainstGate == EveryContainer(C34_OfContainer)

\* "fog", "strike", "customs": the first was classified twice and discarded,
\* the others once each; one error, no weather status on the record.
C34_Witness ==
  /\ pc = "returned"
  /\ SomeContainer(LAMBDA st, ct :
       /\ ct.pc = "fulfilled"
       /\ Len(ct.gate) = 3
       /\ ct.classifierCalls = <<1, 1, 2, 3>>
       /\ ct.gate[1].outcome = "discarded"
       /\ ct.gate[2].outcome = "accepted" /\ ct.gate[3].outcome = "accepted"
       /\ Len(ct.errors) = 1
       /\ ct.record[1].weatherFetchStatus = None)

\* --------------------------------------------------------------------- C35
\* The requests sent for the one delay reason: those of the analyzeDelay
\* calls that settled and those of the call in progress.
requestsSent ==
  classifier.requests
    + (IF classifier.pc = "awaitRetry" THEN createCalls(retry) ELSE 0)

requestLimit == Max(classifier.config.maxRetries + 1, 0)

\* The failure the call in progress last met, if any, is a failure of the
\* request or of reading its response, never a verdict.
failedOnlyInTransport ==
  (classifier.pc = "awaitRetry" /\ retry.thrown # None)
    => retry.thrown[1] \in CreateRejections \cup {parseFailure}

\* C35: the classifier asks again only after a failed request, never because
\* of a low confidence; each analyzeDelay call sends at most maxRetries + 1
\* requests, the gate calls analyzeDelay at most twice for a delay reason, and
\* so at most 2 * (maxRetries + 1) requests are sent for it.
C35_RequestBound ==
  /\ failedOnlyInTransport
  /\ classifier.pc = "awaitRetry" => createCalls(retry) <= requestLimit
  /\ EveryContainer(LAMBDA st, ct : callsFor(ct, 1) <= 2)
  /\ requestsSent <= 2 * requestLimit

\* maxRetries = 2: both gate attempts used up their three requests, the
\* fallback verdicts were below the threshold and the reason was discarded.
C35_Witness ==
  /\ pc = "returned"
  /\ classifier.config.maxRetries = 2
  /\ classifier.requests = 6
  /\ SomeContainer(LAMBDA st, ct :
       /\ callsFor(ct, 1) = 2
       /\ Len(ct.gate) = 1 /\ ct.gate[1].outcome = "discarded")

\* A low verdict from the service itself on the first attempt led to the
\* second gate attempt after one request.
C35_WitnessLowVerdict ==
  /\ classifier.pc = "awaitRetry"
  /\ classifier.requests = 1
  /\ createCalls(retry) = 1
  /\ SomeContainer(LAMBDA st, ct :
       ct.attempt = 2 /\ ct.first # None /\ ct.first[1].confidence = 65)

\* --------------------------------------------------------------------- C36
getWeatherSettled == provider.pc \in {"returned", "threw"}

futureDated == isFutureDate(provider.date[1], provider.clock[1])

\* The retried fetch gave a response and parseWeatherResponse raised on it.
notProcessed ==
  /\ retry.pc = "returned"
  /\ parseWeatherResponse(retry.outcome[1], provider.date[1]).status = "rejected"

\* The response holds no entry for the hour, or a null temperature or wind
\* speed at it.
lacksData(response, date) ==
  \/ response.hourly = None
  \/ findIndex(response.hourly[1].time, getUTCHours(date)) = 0
  \/ LET h == response.hourly[1]
         index == findIndex(h.time, getUTCHours(date))
     IN /\ h.temperature_2m # None /\ h.wind_speed_10m # None
        /\ h.temperature_2m[1][index] = None \/ h.wind_speed_10m[1][index] = None

\* What the claim says getWeather returns.
expectedStatus ==
  IF futureDated THEN "NO_DATA_AVAILABLE"
  ELSE IF retry.pc = "threw" /\ raisedExhausted THEN "RETRY_EXHAUSTED"
  ELSE IF retry.pc = "threw" \/ notProcessed THEN "FATAL_ERROR"
  ELSE IF lacksData(retry.outcome[1], provider.date[1]) THEN "NO_DATA_AVAILABLE"
  ELSE "SUCCESS"

\* C36: getWeather never raises and returns one of the four statuses:
\* RETRY_EXHAUSTED exactly when retryWithBackoff gave up after maxRetries + 1
\* fetches that all failed retryably, FATAL_ERROR exactly when a fetch failed
\* non-retryably or the response could not be processed, NO_DATA_AVAILABLE
\* for a future date or a response without the hour, the temperature or the
\* wind speed, SUCCESS otherwise.
C36_OutcomeMapping ==
  getWeatherSettled =>
    /\ provider.pc = "returned"
    /\ provider.outcome[1].status = "fulfilled"
    /\ statusOf(provider.outcome[1])
         \in {"SUCCESS", "NO_DATA_AVAILABLE", "RETRY_EXHAUSTED", "FATAL_ERROR"}
    /\ statusOf(provider.outcome[1]) = expectedStatus
    /\ statusOf(provider.outcome[1]) = "RETRY_EXHAUSTED" <=>
         (~futureDated /\ raisedExhausted /\ failedRetryably
            /\ fetches = retry.options.maxRetries + 1)
    /\ statusOf(provider.outcome[1]) = "FATAL_ERROR" <=>
         (~futureDated /\ ((retry.pc = "threw" /\ failedNonRetryably) \/ notProcessed))

\* maxRetries = -1: retryWithBackoff raised at once and getWeather raised in
\* its catch block.
C36_GetWeatherRaised ==
  /\ provider.pc = "threw"
  /\ provider.config.maxRetries = -1
  /\ raisedExhausted /\ fetches = 0

\* --------------------------------------------------------------------- C37
\* C37: whenever retryWithBackoff raises RetryExhaustedError, the operation
\* was invoked at least once, attempts is the number of invocations made and
\* lastError is the error the last invocation raised.
C37_ExhaustedTruthful ==
  raisedExhausted =>
    /\ invocations >= 1
    /\ retry.outcome[1].attempts = invocations
    /\ retry.thrown # None
    /\ retry.outcome[1].lastError = Some(asError(retry.thrown[1]))
    /\ lastEvent = "call"

\* maxRetries = -1: RetryExhaustedError after no invocation, holding no error.
C37_RaisedWithoutInvocation ==
  /\ raisedExhausted
  /\ retry.options.maxRetries = -1
  /\ invocations = 0
  /\ retry.outcome[1].attempts = 0
  /\ retry.outcome[1].lastError = None

\* --------------------------------------------------------------------- C38
analyzeShipmentsCalled == retry.pc = "none"

retryWithBackoffCalled == retry.pc # "none"

\* C38: when every pending call settles, an analyzeShipments call over a
\* finite ID list with batchSize >= 1 and finitely many containers and delay
\* reasons returns, and a retryWithBackoff call returns or raises.
C38_Termination ==
  /\ analyzeShipmentsCalled ~> (pc = "returned")
  /\ retryWithBackoffCalled ~> (retry.pc \in {"returned", "threw"})

\* Three IDs in two chunks were processed and analyzeShipments returned.
C38_Witness ==
  /\ analyzeShipmentsCalled
  /\ batchSize >= 1
  /\ Len(shipmentIds) = 3 /\ Len(chunks) = 2
  /\ pc = "returned"
  /\ Len(settled) = 3

\* retryWithBackoff raised after its last invocation, having slept before it.
C38_WitnessRetry ==
  /\ retryWithBackoffCalled
  /\ retry.pc = "threw"
  /\ invocations = retry.options.maxRetries + 1
  /\ eventsOf("wake") # {}

\* --------------------------------------------------------------------- C39
ShipmentErrorTypes == {"SHIPMENT_NOT_FOUND", "SHIPMENT_FETCH_ERROR"}

ContainerErrorTypes ==
  {"TRACKING_FETCH_ERROR", "DELAY_ANALYSIS_LOW_CONFIDENCE", "WEATHER_FETCH_ERROR"}

\* errs holds an entry with e's key and type (and quoted delay reason).
holdsError(errs, e) ==
  \E n \in 1..Len(errs) : errorSignature(errs[n]) = errorSignature(e)

\* e is the error of st's own unresolved lookup.
ofOwnShipment(st, e) ==
  /\ unresolved(st)
  /\ e.containerNumber = st.shipmentId
  /\ e.errorType \in ShipmentErrorTypes

\* e was pushed by the fulfilled task of one of st's containers, under that
\* container's number.
ofOwnContainer(st, e) ==
  /\ resolved(st)
  /\ e.errorType \in ContainerErrorTypes
  /\ \E j \in 1..Len(st.containers) :
       LET ct == st.containers[j] IN
         /\ e.containerNumber = ct.containerNumber
         /\ ct.pc = "fulfilled" /\ ct.record # None
         /\ holdsError(ct.errors, e)

\* e stands for one of st's container tasks that rejected.
ofRejectedContainer(st, e) ==
  /\ isSynthetic(e, "TRACKING_FETCH_ERROR")
  /\ \E j \in 1..Len(st.containers) : st.containers[j].pc = "rejected"

ofRejectedShipment(st, e) ==
  isSynthetic(e, "SHIPMENT_FETCH_ERROR") /\ st.pc = "rejected"

\* An entry of the errors returned so far is traced to a settled task, and
\* an entry keyed by a container has that container's record in the output.
traced(e) ==
  \E k \in 1..Len(settled) :
    LET st == settled[k] IN
      \/ ofRejectedShipment(st, e)
      \/ /\ st.pc = "fulfilled"
         /\ holdsError(st.errors, e)
         /\ \/ ofOwnShipment(st, e)
            \/ ofRejectedContainer(st, e)
            \/ ofOwnContainer(st, e) /\ hasRecordFor(st.shipmentId, e.containerNumber)

\* The error lists of the branches hold their own entries only.
C39_OfContainer(st, ct) ==
  \A n \in 1..Len(ct.errors) :
    /\ ct.errors[n].containerNumber = ct.containerNumber
    /\ ct.errors[n].errorType \in ContainerErrorTypes

C39_OfShipment(st) ==
  \A n \in 1..Len(st.errors) :
    \/ ofOwnShipment(st, st.errors[n])
    \/ ofRejectedContainer(st, st.errors[n])
    \/ ofOwnContainer(st, st.errors[n])

\* C39: every entry of errors is keyed by an input shipment ID (the
\* SHIPMENT_NOT_FOUND / SHIPMENT_FETCH_ERROR of that ID's lookup), by a
\* container of a resolved shipment whose record was emitted (an error that
\* container's task pushed), or by "unknown" (for a task that rejected); the
\* error list of a branch holds entries of that branch only.
C39_ErrorKeysTraceable ==
  /\ \A n \in 1..Len(errors) : traced(errors[n])
  /\ \A k \in 1..Len(allTasks) : C39_OfShipment(allTasks[k])
  /\ EveryContainer(C39_OfContainer)

\* The returned errors hold an entry keyed by an ID, one keyed by a container
\* and a synthetic one.
C39_Witness ==
  /\ pc = "returned"
  /\ \E a, b, c \in 1..Len(errors) :
       /\ errors[a].containerNumber \in {shipmentIds[k] : k \in 1..Len(shipmentIds)}
       /\ errors[b].errorType \in ContainerErrorTypes
       /\ errors[b].containerNumber # "unknown"
       /\ errors[c].containerNumber = "unknown"

====
